---- MODULE Spec2Model ----
(***************************************************************************)
(* Model of map_router: the contraction-hierarchies preprocessor           *)
(* (pkg/ch), the bidirectional query engine (pkg/routing) and the binary   *)
(* graph codec (pkg/graph).                                                *)
(*                                                                         *)
(* Go slices are modelled as sequences; the element a[i] of the source is  *)
(* At(a, i).  A uint32 is modelled as the 32-bit word that holds it,       *)
(* written as the integer in -2^31 .. 2^31-1 with the same bit pattern, so *)
(* that math.MaxUint32 is the word -1; Lt32/Le32 are the unsigned order    *)
(* and Add32 is addition modulo 2^32.                                      *)
(***************************************************************************)
EXTENDS Integers, Sequences, FiniteSets, TLC

VARIABLES
    g,          \* the original graph handed to Contract and to NewEngine
    cs,         \* the local state of ch.Contract
    chg,        \* the CHGraph returned by Contract (NoGraph before)
    qs,         \* the QueryState of the query in flight
    run,        \* the locals of Route / runCHDijkstra and the query's position
    cancelled,  \* ctx.Err() != nil
    out,        \* what the last finished query returned
    disk,       \* the files: the path WriteBinary wrote and a second path
    loaded,     \* what ReadBinary returned to the server
    wr,         \* the position and the result of a WriteBinary call in steps
    comp,       \* the largest-component stage: its position and its results
    eng,        \* one Engine under concurrent Route calls: its pool, the
                \* QueryStates allocated so far, and each caller's locals
    snapper,    \* the Snapper: its index, the point last asked for, the answer
    srv,        \* the HTTP host: the tokens in sem and the requests in flight
    bld,        \* cmd/preprocess before Contract: the parsed edges, its position
    dsu,        \* a UnionFind under calls of Union and Find, with the sets
                \* its elements ought to form and the last call's result
    unp         \* a call of unpackOverlayPath in steps: its arguments, its
                \* locals, and the number of stack items it has skipped

chVars == <<g, cs, chg>>
queryVars == <<qs, run, cancelled, out>>
binVars == <<disk, loaded>>
restVars == <<wr, comp, eng, snapper, srv, bld, dsu, unp>>
wrRest == <<comp, eng, snapper, srv, bld, dsu, unp>>
compRest == <<wr, eng, snapper, srv, bld, dsu, unp>>
engRest == <<wr, comp, snapper, srv, bld, dsu, unp>>
snRest == <<wr, comp, eng, srv, bld, dsu, unp>>
srvRest == <<wr, comp, eng, snapper, bld, dsu, unp>>
bldRest == <<wr, comp, eng, snapper, srv, dsu, unp>>
dsuRest == <<wr, comp, eng, snapper, srv, bld, unp>>
unpRest == <<wr, comp, eng, snapper, srv, bld, dsu>>
vars ==
    <<g, cs, chg, qs, run, cancelled, out, disk, loaded, wr, comp, eng, snapper, srv,
      bld, dsu, unp>>

-----------------------------------------------------------------------------
(* 32-bit words *)

MaxUint32 == -1
noNode == -1
Lt32(a, b) == IF (a < 0) = (b < 0) THEN a < b ELSE b < 0
Le32(a, b) == ~Lt32(b, a)

Add32(a, b) ==
    LET MaxInt32 == 2147483647 IN
    IF a >= 0 /\ b >= 0 /\ a > MaxInt32 - b
        THEN ((a - MaxInt32) - 1) + ((b - MaxInt32) - 1)
    ELSE IF a < 0 /\ b < 0 /\ a < ((0 - MaxInt32) - 1) - b
        THEN ((a + MaxInt32) + 1) + ((b + MaxInt32) + 1)
    ELSE a + b

At(s, i) == s[i + 1]
Put(s, i, v) == [s EXCEPT ![i + 1] = v]
Fill(n, v) == [i \in 1..n |-> v]

RECURSIVE Concat(_)
Concat(ss) == IF ss = <<>> THEN <<>> ELSE Head(ss) \o Concat(Tail(ss))

\* A loop "for i := lo; i <= hi; i++ { acc = Step(acc, i) }", evaluated by
\* halving the range, the first half before the second is entered (the test
\* on {first} makes the evaluator compute it there), so that a long loop
\* nests only logarithmically deep.
RECURSIVE FoldRange(_, _, _, _)
FoldRange(Step(_, _), acc, lo, hi) ==
    IF lo > hi THEN acc
    ELSE IF lo = hi THEN Step(acc, lo)
    ELSE LET first == FoldRange(Step, acc, lo, (lo + hi) \div 2)
         IN IF {first} # {} THEN FoldRange(Step, first, (lo + hi) \div 2 + 1, hi)
            ELSE first

\* n applications of Step, evaluated the same way.
RECURSIVE Iterate(_, _, _)
Iterate(Step(_), st, n) ==
    IF n <= 0 THEN st
    ELSE IF n = 1 THEN Step(st)
    ELSE LET first == Iterate(Step, st, n \div 2)
         IN IF {first} # {} THEN Iterate(Step, first, n - n \div 2) ELSE first

-----------------------------------------------------------------------------
(* Array-backed binary min-heaps.  The three heaps of the source           *)
(* (contractionPQ, witnessHeap, MinHeap) share one algorithm: parent at    *)
(* (i-1)/2, sift-up stops at the first parent that is not greater,         *)
(* sift-down descends to the smaller child, the left one on a tie.         *)

RECURSIVE siftUp(_, _, _, _)
siftUp(Less(_, _), items, i, item) ==
    IF i = 0 THEN Put(items, 0, item)
    ELSE LET parent == (i - 1) \div 2 IN
         IF ~Less(item, At(items, parent)) THEN Put(items, i, item)
         ELSE siftUp(Less, Put(items, i, At(items, parent)), parent, item)

RECURSIVE siftDown(_, _, _, _)
siftDown(Less(_, _), items, i, item) ==
    LET n == Len(items)
        left == 2 * i + 1
        right == left + 1
        child == IF right < n /\ Less(At(items, right), At(items, left))
                     THEN right ELSE left
    IN IF left >= n THEN Put(items, i, item)
       ELSE IF ~Less(At(items, child), item) THEN Put(items, i, item)
       ELSE siftDown(Less, Put(items, i, At(items, child)), child, item)

HeapPush(Less(_, _), items, item) ==
    siftUp(Less, Append(items, item), Len(items), item)

HeapPop(Less(_, _), items) ==
    LET n == Len(items) - 1
        rest == SubSeq(items, 1, n)
    IN IF n > 0 THEN siftDown(Less, rest, 0, items[n + 1]) ELSE rest

PrioLess(a, b) == a.priority < b.priority
DistLess(a, b) == Lt32(a.dist, b.dist)

-----------------------------------------------------------------------------
(* graph.Graph in CSR form *)

EdgesFrom(gr, u) == At(gr.FirstOut, u) .. (At(gr.FirstOut, u + 1) - 1)

\* The CSR arrays of a list of edges <<from, to, weight>> already sorted by
\* source: head and weight in list order, FirstOut by counting and prefix sum.
CountFrom(edges, u) == Cardinality({k \in 1..Len(edges) : edges[k][1] < u})

CSRGraph(n, edges, lat, lon) ==
    [NumNodes |-> n,
     NumEdges |-> Len(edges),
     FirstOut |-> [i \in 1..(n + 1) |-> CountFrom(edges, i - 1)],
     Head     |-> [k \in 1..Len(edges) |-> edges[k][2]],
     Weight   |-> [k \in 1..Len(edges) |-> edges[k][3]],
     NodeLat  |-> lat,
     NodeLon  |-> lon,
     GeoFirstOut |-> [k \in 1..(Len(edges) + 1) |-> 0],
     GeoShapeLat |-> <<>>,
     GeoShapeLon |-> <<>>]

EmptyGraph ==
    [NumNodes |-> 0, NumEdges |-> 0, FirstOut |-> <<>>, Head |-> <<>>,
     Weight |-> <<>>, NodeLat |-> <<>>, NodeLon |-> <<>>,
     GeoFirstOut |-> <<>>, GeoShapeLat |-> <<>>, GeoShapeLon |-> <<>>]

-----------------------------------------------------------------------------
(* graph.Build.  A RawEdge is [FromNodeID, ToNodeID, Weight]; the coordinate *)
(* maps of the ParseResult give node id the latitude and longitude id.       *)

\* addNode (build 21-29): the ids in order of first appearance.
addNode(nodeIDs, id) ==
    IF \E k \in 1..Len(nodeIDs) : nodeIDs[k] = id THEN nodeIDs
    ELSE Append(nodeIDs, id)
CollectNodes(edges) ==
    FoldRange(LAMBDA ids, k :
                  addNode(addNode(ids, edges[k].FromNodeID), edges[k].ToNodeID),
              <<>>, 1, Len(edges))
nodeSet(nodeIDs, id) == (CHOOSE k \in 1..Len(nodeIDs) : nodeIDs[k] = id) - 1

\* The compact edge list (build 40-58) as triples <<from, to, weight>>.
CompactEdges(edges) ==
    [i \in 1..Len(edges) |->
        <<nodeSet(CollectNodes(edges), edges[i].FromNodeID),
          nodeSet(CollectNodes(edges), edges[i].ToNodeID),
          edges[i].Weight>>]

\* sort.Slice by (from, to) is not stable: every arrangement in which the
\* keys do not decrease is a possible outcome (build 61-66).
KeyLE(a, b) == a[1] < b[1] \/ (a[1] = b[1] /\ a[2] <= b[2])
SortOrders(compact) ==
    {p \in [1..Len(compact) -> 1..Len(compact)] :
        /\ \A i, j \in 1..Len(compact) : i # j => p[i] # p[j]
        /\ \A i \in 1..(Len(compact) - 1) : KeyLE(compact[p[i]], compact[p[i + 1]])}

\* Build with the arrangement order chosen by the sort.
Build(edges, order) ==
    IF Len(edges) = 0 THEN EmptyGraph
    ELSE CSRGraph(Len(CollectNodes(edges)),
                  [i \in 1..Len(edges) |-> CompactEdges(edges)[order[i]]],
                  CollectNodes(edges), CollectNodes(edges))

-----------------------------------------------------------------------------
(* pkg/ch: witness search *)

maxSettled == 500
maxHops == 5
maxShortcutsPerNode == 1000

\* witnessState.reset
wsReset(ws) ==
    [dist    |-> [i \in 1..Len(ws.dist) |->
                    IF \E k \in 1..Len(ws.touched) : ws.touched[k] = i - 1
                        THEN MaxUint32 ELSE ws.dist[i]],
     touched |-> <<>>,
     heap    |-> <<>>]

\* A relaxation that may pass through the node being contracted.
wsRelaxEdgeThroughNode(ws, cur, e, excluded, maxWeight, contracted) ==
    LET newDist == Add32(cur.dist, e.weight)
        skip == \/ At(contracted, e.to)
                \/ Lt32(maxWeight, newDist)
                \/ ~Lt32(newDist, At(ws.dist, e.to))
    IN IF skip THEN ws
       ELSE [dist    |-> Put(ws.dist, e.to, newDist),
             touched |-> IF At(ws.dist, e.to) = MaxUint32
                             THEN Append(ws.touched, e.to)
                             ELSE ws.touched,
             heap    |-> HeapPush(DistLess, ws.heap,
                           [node |-> e.to, dist |-> newDist, hops |-> cur.hops + 1])]
\* One pass of the relaxation loop over outAdj[cur.node] (witness.go 146-163).
wsRelaxEdge(ws, cur, e, excluded, maxWeight, contracted) ==
    LET newDist == Add32(cur.dist, e.weight)
        skip == \/ e.to = excluded
                \/ At(contracted, e.to)
                \/ Lt32(maxWeight, newDist)
                \/ ~Lt32(newDist, At(ws.dist, e.to))
    IN IF skip THEN ws
       ELSE [dist    |-> Put(ws.dist, e.to, newDist),
             touched |-> IF At(ws.dist, e.to) = MaxUint32
                             THEN Append(ws.touched, e.to)
                             ELSE ws.touched,
             heap    |-> HeapPush(DistLess, ws.heap,
                           [node |-> e.to, dist |-> newDist, hops |-> cur.hops + 1])]

wsRelax(ws, cur, adj, excluded, maxWeight, contracted) ==
    FoldRange(LAMBDA w, k : wsRelaxEdge(w, cur, adj[k], excluded, maxWeight, contracted),
              ws, 1, Len(adj))

\* The main loop of batchWitnessSearch (witness.go 124-164).
RECURSIVE wsLoop(_, _, _, _, _, _)
wsLoop(ws, settled, outAdj, excluded, maxWeight, contracted) ==
    IF Len(ws.heap) = 0 THEN ws
    ELSE LET cur == ws.heap[1]
             ws1 == [ws EXCEPT !.heap = HeapPop(DistLess, ws.heap)]
         IN IF Lt32(At(ws.dist, cur.node), cur.dist)
                THEN wsLoop(ws1, settled, outAdj, excluded, maxWeight, contracted)
            ELSE IF settled + 1 >= maxSettled THEN ws1
            ELSE IF Lt32(maxWeight, cur.dist) \/ cur.hops >= maxHops
                THEN wsLoop(ws1, settled + 1, outAdj, excluded, maxWeight, contracted)
            ELSE wsLoop(wsRelax(ws1, cur, At(outAdj, cur.node), excluded,
                                maxWeight, contracted),
                        settled + 1, outAdj, excluded, maxWeight, contracted)

batchWitnessSearch(ws, outAdj, source, excluded, maxWeight, contracted) ==
    LET r == wsReset(ws)
        ws0 == [dist    |-> Put(r.dist, source, 0),
                touched |-> <<source>>,
                heap    |-> <<[node |-> source, dist |-> 0, hops |-> 0]>>]
    IN wsLoop(ws0, 0, outAdj, excluded, maxWeight, contracted)

newWitnessState(n) ==
    [dist |-> Fill(n, MaxUint32), touched |-> <<>>, heap |-> <<>>]

-----------------------------------------------------------------------------
(* pkg/ch: contraction *)

Active(adj, contracted) == SelectSeq(adj, LAMBDA e : ~At(contracted, e.to))

\* The scan for the heaviest outgoing edge not leading back to v
\* (contractor 193-198).
MaxWeightNotTo(outgoing, v, acc) ==
    FoldRange(LAMBDA m, k :
                  IF outgoing[k].to # v /\ Lt32(m, outgoing[k].weight)
                      THEN outgoing[k].weight ELSE m,
              acc, 1, Len(outgoing))

\* One pass of the loop over ws.incoming (contractor 188-222) on the witness
\* state and the shortcuts appended so far.
fsStep(st, in, outgoing, outAdj, node, contracted) ==
    LET maxOut == MaxWeightNotTo(outgoing, in.to, 0)
        maxWeight == Add32(in.weight, maxOut)
        ws1 == batchWitnessSearch(st.ws, outAdj, in.to, node, maxWeight, contracted)
        need == SelectSeq(outgoing, LAMBDA o :
                   /\ o.to # in.to
                   /\ Lt32(Add32(in.weight, o.weight), At(ws1.dist, o.to)))
        scs == [k \in 1..Len(need) |->
                   [from |-> in.to, to |-> need[k].to,
                    weight |-> Add32(in.weight, need[k].weight)]]
    IN IF maxOut = 0 THEN st
       ELSE [ws |-> ws1, shortcuts |-> st.shortcuts \o scs]

findShortcuts(ws, outAdj, inAdj, node, contracted) ==
    LET incoming == Active(At(inAdj, node), contracted)
        outgoing == Active(At(outAdj, node), contracted)
    IN IF incoming = <<>> \/ outgoing = <<>>
           THEN [ws |-> ws, shortcuts |-> <<>>]
           ELSE FoldRange(LAMBDA st, k :
                              fsStep(st, incoming[k], outgoing, outAdj, node, contracted),
                          [ws |-> ws, shortcuts |-> <<>>], 1, Len(incoming))

computePriority(outAdj, inAdj, node, contracted, contractedNeighbors, level) ==
    LET activeIn == Len(Active(At(inAdj, node), contracted))
        activeOut == Len(Active(At(outAdj, node), contracted))
        edgeDifference == activeIn * activeOut - (activeIn + activeOut)
    IN edgeDifference + 2 * contractedNeighbors + level

\* pq.Push of every node in index order (contractor 47-50).
RECURSIVE pqInit(_, _, _, _)
pqInit(pq, i, n, prio) ==
    IF i = n THEN pq
    ELSE pqInit(HeapPush(PrioLess, pq, [node |-> i, priority |-> prio[i + 1]]),
                i + 1, n, prio)

\* Contract up to the first test of the loop condition (contractor 21-62).
ContractStart(gr) ==
    LET n == gr.NumNodes
        outAdj == [i \in 1..n |->
                    [k \in 1..(At(gr.FirstOut, i) - At(gr.FirstOut, i - 1)) |->
                        [to     |-> At(gr.Head, At(gr.FirstOut, i - 1) + k - 1),
                         weight |-> At(gr.Weight, At(gr.FirstOut, i - 1) + k - 1),
                         middle |-> -1]]]
        src(e) == CHOOSE u \in 0..(n - 1) : e \in EdgesFrom(gr, u)
        inAdj == [i \in 1..n |->
                    LET es == SelectSeq([e \in 1..Len(gr.Head) |-> e - 1],
                                        LAMBDA e : At(gr.Head, e) = i - 1)
                    IN [k \in 1..Len(es) |->
                          [to |-> src(es[k]), weight |-> At(gr.Weight, es[k]),
                           middle |-> -1]]]
        contracted == Fill(n, FALSE)
        prio == [i \in 1..n |-> computePriority(outAdj, inAdj, i - 1, contracted, 0, 0)]
    IN [pc |-> IF n = 0 THEN "returned" ELSE "loop",
        outAdj |-> outAdj, inAdj |-> inAdj,
        contracted |-> contracted,
        rank |-> Fill(n, 0),
        contractedNeighbors |-> Fill(n, 0),
        level |-> Fill(n, 0),
        pq |-> pqInit(<<>>, 0, n, prio),
        ws |-> newWitnessState(n),
        order |-> 0]

\* Shortcuts appended with one unit of weight too many.
AddShortcutsHeavier(adj, scs, node, byFrom) ==
    [i \in 1..Len(adj) |->
        LET mine == SelectSeq(scs, LAMBDA sc :
                        (IF byFrom THEN sc.from ELSE sc.to) = i - 1)
        IN adj[i] \o [k \in 1..Len(mine) |->
                        [to |-> IF byFrom THEN mine[k].to ELSE mine[k].from,
                         weight |-> mine[k].weight + 1, middle |-> node]]]
\* Appending the shortcuts to outAdj[sc.from] and inAdj[sc.to] (contractor 98-101).
AddShortcuts(adj, scs, node, byFrom) ==
    [i \in 1..Len(adj) |->
        LET mine == SelectSeq(scs, LAMBDA sc :
                        (IF byFrom THEN sc.from ELSE sc.to) = i - 1)
        IN adj[i] \o [k \in 1..Len(mine) |->
                        [to |-> IF byFrom THEN mine[k].to ELSE mine[k].from,
                         weight |-> mine[k].weight, middle |-> node]]]

\* The update of contractedNeighbors and level (contractor 104-119): one
\* increment for every entry of outAdj[node] and inAdj[node] whose far end is
\* not contracted.
Bump(c, node, i) ==
    Len(SelectSeq(At(c.outAdj, node), LAMBDA e : e.to = i /\ ~At(c.contracted, i)))
  + Len(SelectSeq(At(c.inAdj, node), LAMBDA e : e.to = i /\ ~At(c.contracted, i)))

\* An iteration that puts the popped node back whatever its priority.
ContractIterReinsert(c) ==
    [c EXCEPT !.pq = HeapPush(PrioLess, HeapPop(PrioLess, c.pq), c.pq[1])]
\* One iteration of the loop "for pq.Len() > 0" (contractor 63-136).
ContractIter(c) ==
    LET entry == c.pq[1]
        node == entry.node
        pq1 == HeapPop(PrioLess, c.pq)
        newPriority == computePriority(c.outAdj, c.inAdj, node, c.contracted,
                           At(c.contractedNeighbors, node), At(c.level, node))
        fs == findShortcuts(c.ws, c.outAdj, c.inAdj, node, c.contracted)
        contracted1 == Put(c.contracted, node, TRUE)
        c1 == [c EXCEPT !.pq = pq1, !.ws = fs.ws,
                        !.contracted = contracted1,
                        !.rank = Put(c.rank, node, c.order),
                        !.order = c.order + 1,
                        !.outAdj = AddShortcuts(c.outAdj, fs.shortcuts, node, TRUE),
                        !.inAdj = AddShortcuts(c.inAdj, fs.shortcuts, node, FALSE)]
    IN IF At(c.contracted, node)
           THEN [c EXCEPT !.pq = pq1, !.pc = IF Len(pq1) > 0 THEN "loop" ELSE "core"]
       ELSE IF /\ newPriority > entry.priority
               /\ Len(pq1) > 0
               /\ newPriority > pq1[1].priority
           THEN [c EXCEPT !.pq = HeapPush(PrioLess, pq1,
                                    [node |-> node, priority |-> newPriority])]
       ELSE IF Len(fs.shortcuts) > maxShortcutsPerNode
           THEN [c EXCEPT !.pq = pq1, !.ws = fs.ws, !.pc = "core"]
       ELSE [c1 EXCEPT
               !.contractedNeighbors = [i \in 1..Len(c.level) |->
                   c.contractedNeighbors[i] + Bump(c1, node, i - 1)],
               !.level = [i \in 1..Len(c.level) |->
                   IF Bump(c1, node, i - 1) > 0 /\ At(c.level, node) + 1 > c.level[i]
                       THEN At(c.level, node) + 1 ELSE c.level[i]],
               !.pc = IF Len(pq1) > 0 THEN "loop" ELSE "core"]

\* A ranking that gives every core node the same rank.
CoreRanksNoIncrement(c) ==
    [i \in 1..Len(c.rank) |-> IF c.contracted[i] THEN c.rank[i] ELSE c.order]
\* The ranking of the uncontracted core nodes in index order (contractor 138-147).
CoreRanks(c) ==
    [i \in 1..Len(c.rank) |->
        IF c.contracted[i] THEN c.rank[i]
        ELSE c.order + Cardinality({j \in 1..(i - 1) : ~c.contracted[j]})]


\* A CSR whose entries all lose their middle node.
buildCSRNoMiddle(n, edges) ==
    LET of(u) == SelectSeq(edges, LAMBDA e : e.from = u)
        placed == Concat([i \in 1..n |-> of(i - 1)])
    IN [firstOut |-> [i \in 1..(n + 1) |->
                        Len(SelectSeq(edges, LAMBDA e : e.from < i - 1))],
        head   |-> [k \in 1..Len(placed) |-> placed[k].to],
        weight |-> [k \in 1..Len(placed) |-> placed[k].weight],
        middle |-> [k \in 1..Len(placed) |-> -1]]
\* buildCSR of buildOverlay (contractor 282-309): counting, prefix sum, stable
\* placement of the collected edges by source.
buildCSR(n, edges) ==
    LET of(u) == SelectSeq(edges, LAMBDA e : e.from = u)
        placed == Concat([i \in 1..n |-> of(i - 1)])
    IN [firstOut |-> [i \in 1..(n + 1) |->
                        Len(SelectSeq(edges, LAMBDA e : e.from < i - 1))],
        head   |-> [k \in 1..Len(placed) |-> placed[k].to],
        weight |-> [k \in 1..Len(placed) |-> placed[k].weight],
        middle |-> [k \in 1..Len(placed) |-> placed[k].middle]]

\* A collection that leaves the shortcuts out.
UpwardEdgesNoShortcuts(adj, rank) ==
    Concat([i \in 1..Len(adj) |->
        LET up == SelectSeq(adj[i], LAMBDA e :
                      At(rank, i - 1) < At(rank, e.to) /\ e.middle = -1)
        IN [k \in 1..Len(up) |->
              [from |-> i - 1, to |-> up[k].to, weight |-> up[k].weight,
               middle |-> up[k].middle]]])
\* The edges buildOverlay collects from one adjacency (contractor 265-278).
UpwardEdges(adj, rank) ==
    Concat([i \in 1..Len(adj) |->
        LET up == SelectSeq(adj[i], LAMBDA e : At(rank, i - 1) < At(rank, e.to))
        IN [k \in 1..Len(up) |->
              [from |-> i - 1, to |-> up[k].to, weight |-> up[k].weight,
               middle |-> up[k].middle]]])

buildOverlay(orig, outAdj, inAdj, rank) ==
    LET n == orig.NumNodes
        fwd == buildCSR(n, UpwardEdges(outAdj, rank))
        bwd == buildCSR(n, UpwardEdges(inAdj, rank))
    IN [NumNodes |-> n,
        NodeLat |-> orig.NodeLat, NodeLon |-> orig.NodeLon,
        Rank |-> rank,
        FwdFirstOut |-> fwd.firstOut, FwdHead |-> fwd.head,
        FwdWeight |-> fwd.weight, FwdMiddle |-> fwd.middle,
        BwdFirstOut |-> bwd.firstOut, BwdHead |-> bwd.head,
        BwdWeight |-> bwd.weight, BwdMiddle |-> bwd.middle,
        OrigFirstOut |-> orig.FirstOut, OrigHead |-> orig.Head,
        OrigWeight |-> orig.Weight,
        GeoFirstOut |-> orig.GeoFirstOut,
        GeoShapeLat |-> orig.GeoShapeLat, GeoShapeLon |-> orig.GeoShapeLon]

\* &graph.CHGraph{}: what Contract returns for a graph without nodes.
EmptyCHGraph ==
    [NumNodes |-> 0, NodeLat |-> <<>>, NodeLon |-> <<>>, Rank |-> <<>>,
     FwdFirstOut |-> <<>>, FwdHead |-> <<>>, FwdWeight |-> <<>>, FwdMiddle |-> <<>>,
     BwdFirstOut |-> <<>>, BwdHead |-> <<>>, BwdWeight |-> <<>>, BwdMiddle |-> <<>>,
     OrigFirstOut |-> <<>>, OrigHead |-> <<>>, OrigWeight |-> <<>>,
     GeoFirstOut |-> <<>>, GeoShapeLat |-> <<>>, GeoShapeLon |-> <<>>]

\* The tail of Contract (contractor 138-153).
ContractEnd(gr, c) ==
    IF gr.NumNodes = 0 THEN EmptyCHGraph
    ELSE buildOverlay(gr, c.outAdj, c.inAdj, CoreRanks(c))

\* Contract as a function of its argument: the loop run to its end.
RECURSIVE ContractRun(_)
ContractRun(c) == IF c.pc = "loop" THEN ContractRun(ContractIter(c)) ELSE c

Contract(gr) == ContractEnd(gr, ContractRun(ContractStart(gr)))


-----------------------------------------------------------------------------
(* pkg/routing: per-query state *)

PeekDist(h) == IF Len(h) = 0 THEN MaxUint32 ELSE h[1].Dist
PQLess(a, b) == Lt32(a.Dist, b.Dist)
Push(h, node, dist) == HeapPush(PQLess, h, [Node |-> node, Dist |-> dist])
Pop(h) == HeapPop(PQLess, h)

NewQueryState(n) ==
    [DistFwd |-> Fill(n, MaxUint32), DistBwd |-> Fill(n, MaxUint32),
     PredFwd |-> Fill(n, noNode), PredBwd |-> Fill(n, noNode),
     Touched |-> <<>>, FwdPQ |-> <<>>, BwdPQ |-> <<>>]

Untouched(q, node) ==
    At(q.DistFwd, node) = MaxUint32 /\ At(q.DistBwd, node) = MaxUint32

touchFwd(q, node, dist) ==
    [q EXCEPT !.Touched = IF Untouched(q, node) THEN Append(@, node) ELSE @,
              !.DistFwd = Put(@, node, dist)]

\* A backward write that is never recorded.
touchBwdUnrecorded(q, node, dist) == [q EXCEPT !.DistBwd = Put(@, node, dist)]
touchBwd(q, node, dist) ==
    [q EXCEPT !.Touched = IF Untouched(q, node) THEN Append(@, node) ELSE @,
              !.DistBwd = Put(@, node, dist)]

ResetQueuesOnly(q) == [q EXCEPT !.Touched = <<>>, !.FwdPQ = <<>>, !.BwdPQ = <<>>]
Reset(q) ==
    LET hit(i) == \E k \in 1..Len(q.Touched) : q.Touched[k] = i - 1
        clear(a, v) == [i \in 1..Len(a) |-> IF hit(i) THEN v ELSE a[i]]
    IN [DistFwd |-> clear(q.DistFwd, MaxUint32),
        DistBwd |-> clear(q.DistBwd, MaxUint32),
        PredFwd |-> clear(q.PredFwd, noNode),
        PredBwd |-> clear(q.PredBwd, noNode),
        Touched |-> <<>>, FwdPQ |-> <<>>, BwdPQ |-> <<>>]

-----------------------------------------------------------------------------
(* pkg/routing: seeding.  A SnapResult's Ratio is the fraction               *)
(* Ratio / RatioDen; uint32(math.Round(float64(weight) * x)) of a fraction x *)
(* with numerator num rounds half away from zero.                            *)

RatioDen == 5

RoundMul(weight, num) == (2 * weight * num + RatioDen) \div (2 * RatioDen)

seedForward(q, gr, snap) ==
    LET u == snap.NodeU
        v == snap.NodeV
        weight == At(gr.Weight, snap.EdgeIdx)
        dv == RoundMul(weight, RatioDen - snap.Ratio)
        du == RoundMul(weight, snap.Ratio)
        q1 == IF Lt32(dv, MaxUint32)
                  THEN [touchFwd(q, v, dv) EXCEPT !.FwdPQ = Push(@, v, dv)]
                  ELSE q
    IN IF Lt32(du, MaxUint32)
           THEN [touchFwd(q1, u, du) EXCEPT !.FwdPQ = Push(@, u, du)]
           ELSE q1

seedBackward(q, gr, snap) ==
    LET u == snap.NodeU
        v == snap.NodeV
        weight == At(gr.Weight, snap.EdgeIdx)
        du == RoundMul(weight, snap.Ratio)
        dv == RoundMul(weight, RatioDen - snap.Ratio)
        q1 == IF Lt32(du, MaxUint32)
                  THEN [touchBwd(q, u, du) EXCEPT !.BwdPQ = Push(@, u, du)]
                  ELSE q
    IN IF Lt32(dv, MaxUint32)
           THEN [touchBwd(q1, v, dv) EXCEPT !.BwdPQ = Push(@, v, dv)]
           ELSE q1

-----------------------------------------------------------------------------
(* pkg/routing: runCHDijkstra *)

\* One pass of the loop over the forward upward edges of u (engine 269-277).
relaxFwdEdge(c, q, u, d, ei) ==
    LET v == At(c.FwdHead, ei)
        newDist == Add32(d, At(c.FwdWeight, ei))
    IN IF Lt32(newDist, At(q.DistFwd, v))
           THEN [touchFwd(q, v, newDist) EXCEPT
                    !.FwdPQ = Push(@, v, newDist),
                    !.PredFwd = Put(@, v, u)]
           ELSE q

relaxFwd(c, q, u, d, ei, fEnd) ==
    FoldRange(LAMBDA qq, e : relaxFwdEdge(c, qq, u, d, e), q, ei, fEnd - 1)

\* One pass of the loop over the backward upward edges of u (engine 300-308).
relaxBwdEdge(c, q, u, d, ei) ==
    LET v == At(c.BwdHead, ei)
        newDist == Add32(d, At(c.BwdWeight, ei))
    IN IF Lt32(newDist, At(q.DistBwd, v))
           THEN [touchBwd(q, v, newDist) EXCEPT
                    !.BwdPQ = Push(@, v, newDist),
                    !.PredBwd = Put(@, v, u)]
           ELSE q

relaxBwd(c, q, u, d, ei, bEnd) ==
    FoldRange(LAMBDA qq, e : relaxBwdEdge(c, qq, u, d, e), q, ei, bEnd - 1)

\* The forward step of one iteration (engine 251-279) on the pair
\* [q, mu, meetNode].
forwardStep(c, st) ==
    LET item == st.q.FwdPQ[1]
        u == item.Node
        d == item.Dist
        q1 == [st.q EXCEPT !.FwdPQ = Pop(@)]
        candidate == Add32(d, At(q1.DistBwd, u))
        meets == /\ Lt32(At(q1.DistBwd, u), MaxUint32)
                 /\ Lt32(candidate, st.mu)
    IN IF ~Le32(d, At(q1.DistFwd, u)) THEN [st EXCEPT !.q = q1]
       ELSE [q  |-> relaxFwd(c, q1, u, d, At(c.FwdFirstOut, u),
                             At(c.FwdFirstOut, u + 1)),
             mu |-> IF meets THEN candidate ELSE st.mu,
             meetNode |-> IF meets THEN u ELSE st.meetNode]

backwardStep(c, st) ==
    LET item == st.q.BwdPQ[1]
        u == item.Node
        d == item.Dist
        q1 == [st.q EXCEPT !.BwdPQ = Pop(@)]
        candidate == Add32(At(q1.DistFwd, u), d)
        meets == /\ Lt32(At(q1.DistFwd, u), MaxUint32)
                 /\ Lt32(candidate, st.mu)
    IN IF ~Le32(d, At(q1.DistBwd, u)) THEN [st EXCEPT !.q = q1]
       ELSE [q  |-> relaxBwd(c, q1, u, d, At(c.BwdFirstOut, u),
                             At(c.BwdFirstOut, u + 1)),
             mu |-> IF meets THEN candidate ELSE st.mu,
             meetNode |-> IF meets THEN u ELSE st.meetNode]

\* iterations&255 == 0
cancelMask == 255
\* A loop that never looks at the context.
CheckDueNever(iterations) == FALSE
CheckDue(iterations) == iterations % (cancelMask + 1) = 0

\* One pass through the body of the loop of runCHDijkstra (engine 233-311) on
\* [q, mu, meetNode, iterations]; returned is set when the pass leaves the
\* function.
dijkstraIter(c, st, ctxErr) ==
    LET fwdMin == PeekDist(st.q.FwdPQ)
        bwdMin == PeekDist(st.q.BwdPQ)
        iterations == st.iterations + 1
        s0 == [q |-> st.q, mu |-> st.mu, meetNode |-> st.meetNode]
        s1 == IF Lt32(fwdMin, st.mu) THEN forwardStep(c, s0) ELSE s0
        s2 == IF Lt32(PeekDist(s1.q.BwdPQ), s1.mu) THEN backwardStep(c, s1) ELSE s1
    IN IF Le32(st.mu, fwdMin) /\ Le32(st.mu, bwdMin)
           THEN [st EXCEPT !.returned = TRUE]
       ELSE IF CheckDue(iterations) /\ ctxErr
           THEN [st EXCEPT !.iterations = iterations, !.returned = TRUE]
       ELSE [q |-> s2.q, mu |-> s2.mu, meetNode |-> s2.meetNode,
             iterations |-> iterations, returned |-> FALSE]


-----------------------------------------------------------------------------
(* pkg/routing: path reconstruction, unpacking, geometry *)

\* meetNode, pred[meetNode], .. up to the first node without predecessor.
RECURSIVE predChain(_, _)
predChain(pred, node) ==
    IF At(pred, node) = noNode THEN <<node>>
    ELSE <<node>> \o predChain(pred, At(pred, node))

Reverse(sq) == [i \in 1..Len(sq) |-> sq[Len(sq) + 1 - i]]

reconstructOverlayPath(meetNode, predFwd, predBwd) ==
    Reverse(predChain(predFwd, meetNode)) \o Tail(predChain(predBwd, meetNode))

\* Linear scan of the CSR bucket of source; noNode when target is absent.
findEdge(firstOut, head, source, target) ==
    LET hits == {i \in At(firstOut, source)..(At(firstOut, source + 1) - 1) :
                    At(head, i) = target}
    IN IF hits = {} THEN noNode
       ELSE CHOOSE i \in hits : \A j \in hits : i <= j

findMiddle(c, from, to) ==
    LET fe == findEdge(c.FwdFirstOut, c.FwdHead, from, to)
        be == findEdge(c.BwdFirstOut, c.BwdHead, to, from)
    IN IF fe # noNode THEN At(c.FwdMiddle, fe)
       ELSE IF be # noNode THEN At(c.BwdMiddle, be)
       ELSE -1

maxUnpackDepth == 200

\* The inner loop of unpackOverlayPath (unpack 29-52): the stack is a sequence
\* whose last element is the top.
RECURSIVE unpackStack(_, _, _)
unpackStack(c, stack, result) ==
    IF stack = <<>> THEN result
    ELSE LET it == stack[Len(stack)]
             rest == SubSeq(stack, 1, Len(stack) - 1)
             middle == findMiddle(c, it.from, it.to)
         IN IF it.depth > maxUnpackDepth THEN unpackStack(c, rest, result)
            ELSE IF middle < 0
                THEN unpackStack(c, rest,
                        (IF result[Len(result)] # it.from
                            THEN Append(result, it.from) ELSE result)
                        \o <<it.to>>)
            ELSE unpackStack(c,
                    rest \o <<[from |-> middle, to |-> it.to, depth |-> it.depth + 1],
                              [from |-> it.from, to |-> middle, depth |-> it.depth + 1]>>,
                    result)

RECURSIVE unpackHops(_, _, _, _)
unpackHops(c, overlayNodes, i, result) ==
    IF i >= Len(overlayNodes) - 1 THEN result
    ELSE unpackHops(c, overlayNodes, i + 1,
            unpackStack(c, <<[from |-> At(overlayNodes, i),
                              to |-> At(overlayNodes, i + 1), depth |-> 0]>>,
                        result))

unpackOverlayPath(c, overlayNodes) ==
    IF Len(overlayNodes) < 2 THEN overlayNodes
    ELSE unpackHops(c, overlayNodes, 0, <<overlayNodes[1]>>)

\* One pass of the inner loop of unpackOverlayPath (unpack 29-52) on the
\* locals [stack, result, skipped]; skipped counts the items the safety
\* bound has let go.  This pass lets go of the items of depth 200 too.
unpackPassEarly(c, st) ==
    LET it == st.stack[Len(st.stack)]
        rest == SubSeq(st.stack, 1, Len(st.stack) - 1)
        middle == findMiddle(c, it.from, it.to)
    IN IF it.depth >= maxUnpackDepth
           THEN [st EXCEPT !.stack = rest, !.skipped = @ + 1]
       ELSE IF middle < 0
           THEN [st EXCEPT !.stack = rest,
                           !.result = (IF @[Len(@)] # it.from
                                           THEN Append(@, it.from) ELSE @)
                                      \o <<it.to>>]
       ELSE [st EXCEPT !.stack =
                rest \o <<[from |-> middle, to |-> it.to, depth |-> it.depth + 1],
                          [from |-> it.from, to |-> middle, depth |-> it.depth + 1]>>]
unpackPass(c, st) ==
    LET it == st.stack[Len(st.stack)]
        rest == SubSeq(st.stack, 1, Len(st.stack) - 1)
        middle == findMiddle(c, it.from, it.to)
    IN IF it.depth > maxUnpackDepth
           THEN [st EXCEPT !.stack = rest, !.skipped = @ + 1]
       ELSE IF middle < 0
           THEN [st EXCEPT !.stack = rest,
                           !.result = (IF @[Len(@)] # it.from
                                           THEN Append(@, it.from) ELSE @)
                                      \o <<it.to>>]
       ELSE [st EXCEPT !.stack =
                rest \o <<[from |-> middle, to |-> it.to, depth |-> it.depth + 1],
                          [from |-> it.from, to |-> middle, depth |-> it.depth + 1]>>]

\* Coordinates are pairs <<lat, lng>>.
NodeLatLng(gr, n) == <<At(gr.NodeLat, n), At(gr.NodeLon, n)>>

buildGeometry(gr, nodes) ==
    IF Len(nodes) = 0 THEN <<>>
    ELSE <<NodeLatLng(gr, nodes[1])>> \o
         Concat([i \in 1..(Len(nodes) - 1) |->
            LET u == nodes[i]
                v == nodes[i + 1]
                edgeIdx == findEdge(gr.FirstOut, gr.Head, u, v)
                shape == IF edgeIdx # noNode /\ edgeIdx < Len(gr.GeoFirstOut) - 1
                    THEN [k \in 1..(At(gr.GeoFirstOut, edgeIdx + 1)
                                      - At(gr.GeoFirstOut, edgeIdx)) |->
                            <<At(gr.GeoShapeLat, At(gr.GeoFirstOut, edgeIdx) + k - 1),
                              At(gr.GeoShapeLon, At(gr.GeoFirstOut, edgeIdx) + k - 1)>>]
                    ELSE <<>>
            IN shape \o <<NodeLatLng(gr, v)>>])

\* Route from the return of runCHDijkstra on (engine 85-107).  The distance
\* in metres is float64(mu) / 1000.0: the result carries the numerator mu.
RouteTail(c, gr, q, mu, meetNode) ==
    IF meetNode = noNode \/ mu = MaxUint32
        THEN [err |-> "ErrNoRoute", mu |-> mu, meetNode |-> meetNode,
              overlayNodes |-> <<>>, origNodes |-> <<>>, Geometry |-> <<>>]
    ELSE LET overlayNodes == reconstructOverlayPath(meetNode, q.PredFwd, q.PredBwd)
             origNodes == unpackOverlayPath(c, overlayNodes)
         IN [err |-> "nil", mu |-> mu, meetNode |-> meetNode,
             overlayNodes |-> overlayNodes, origNodes |-> origNodes,
             Geometry |-> buildGeometry(gr, origNodes)]


-----------------------------------------------------------------------------
(* Reference: plainDijkstra of the tests, on the original graph *)

pdRelaxEdge(gr, st, cur, e) ==
    LET v == At(gr.Head, e)
        newDist == Add32(cur.dist, At(gr.Weight, e))
    IN IF Lt32(newDist, At(st.dist, v))
           THEN [dist |-> Put(st.dist, v, newDist),
                 pq |-> Append(st.pq, [node |-> v, dist |-> newDist])]
           ELSE st

\* One pass of the loop "for len(pq) > 0"; no change once pq is empty.
pdStep(gr, st) ==
    IF st.pq = <<>> THEN st
    ELSE LET n == Len(st.pq)
             minIdx == FoldRange(LAMBDA m, i :
                                     IF Lt32(st.pq[i].dist, st.pq[m].dist) THEN i ELSE m,
                                 1, 2, n)
             cur == st.pq[minIdx]
             st1 == [st EXCEPT !.pq = SubSeq([st.pq EXCEPT ![minIdx] = st.pq[n]],
                                             1, n - 1)]
         IN IF Lt32(At(st.dist, cur.node), cur.dist) THEN st1
            ELSE FoldRange(LAMBDA a, e : pdRelaxEdge(gr, a, cur, e), st1,
                           At(gr.FirstOut, cur.node),
                           At(gr.FirstOut, cur.node + 1) - 1)

\* Every pass pops one entry and an edge pushes at most one, so the loop
\* ends within NumEdges + 1 passes.
plainDijkstra(gr, source, target) ==
    At(Iterate(LAMBDA st : pdStep(gr, st),
               [dist |-> Put(Fill(gr.NumNodes, MaxUint32), source, 0),
                pq |-> <<[node |-> source, dist |-> 0]>>],
               gr.NumEdges + 1).dist,
       target)


-----------------------------------------------------------------------------
(* pkg/graph: the binary codec.  A file is a sequence of bytes 0..255; a   *)
(* uint32 or int32 in it is the four little-endian bytes of its word.  The *)
(* slice helpers copy the memory of a []float64 byte for byte: a           *)
(* coordinate x of the model stands for the float64 whose eight bytes are  *)
(* the little-endian bytes of the 64-bit integer x.                         *)

magicBytes == <<77, 80, 82, 79, 85, 84, 69, 82>>    \* "MPROUTER"
version == 2
maxNodes == 10000000
maxEdges == 50000000
headerSize == 32

LE32(w) == <<w % 256, (w \div 256) % 256, (w \div 65536) % 256, (w \div 16777216) % 256>>

WordAt(bs, off) ==
    bs[off + 1] + 256 * bs[off + 2] + 65536 * bs[off + 3]
        + 16777216 * (IF bs[off + 4] >= 128 THEN bs[off + 4] - 256 ELSE bs[off + 4])

LE64(x) == LE32(x) \o (IF x < 0 THEN <<255, 255, 255, 255>> ELSE <<0, 0, 0, 0>>)

\* The float64 held by eight bytes: the coordinate they encode, and the pair
\* of their two words for a bit pattern that encodes no coordinate of the model.
Float64At(bs, off) ==
    LET lo == WordAt(bs, off)
        hi == WordAt(bs, off + 4)
    IN IF (hi = 0 /\ lo >= 0) \/ (hi = -1 /\ lo < 0) THEN lo ELSE <<lo, hi>>

\* The bytes of a slice of 4-byte and of 8-byte elements.
Bytes32(s) == [j \in 1..(4 * Len(s)) |-> LE32(s[(j - 1) \div 4 + 1])[((j - 1) % 4) + 1]]
Bytes64(s) == [j \in 1..(8 * Len(s)) |-> LE64(s[(j - 1) \div 8 + 1])[((j - 1) % 8) + 1]]
Words(bs) == [i \in 1..(Len(bs) \div 4) |-> WordAt(bs, 4 * (i - 1))]
Floats(bs) == [i \in 1..(Len(bs) \div 8) |-> Float64At(bs, 8 * (i - 1))]

\* hash/crc32 with the IEEE polynomial.  A 32-bit register is the tuple of
\* its four bytes, lowest first; the hash keeps the complemented register.
RECURSIVE XorBits(_, _, _)
XorBits(a, b, k) ==
    IF k = 0 THEN 0 ELSE ((a + b) % 2) + 2 * XorBits(a \div 2, b \div 2, k - 1)
XorTable == [a \in 0..255 |-> [b \in 0..255 |-> XorBits(a, b, 8)]]
Xor8(a, b) == XorTable[a][b]
Xor32(v, w) == <<Xor8(v[1], w[1]), Xor8(v[2], w[2]), Xor8(v[3], w[3]), Xor8(v[4], w[4])>>
Shr1(w) ==
    <<w[1] \div 2 + 128 * (w[2] % 2), w[2] \div 2 + 128 * (w[3] % 2),
      w[3] \div 2 + 128 * (w[4] % 2), w[4] \div 2>>
IEEE == <<32, 131, 184, 237>>                       \* 0xedb88320
crcBit(w) == IF w[1] % 2 = 1 THEN Xor32(Shr1(w), IEEE) ELSE Shr1(w)
IEEETable == [i \in 0..255 |-> Iterate(crcBit, <<i, 0, 0, 0>>, 8)]

NewIEEE == <<255, 255, 255, 255>>
\* A hash that ignores the bytes written to it.
crcByteDropped(h, b) == h
\* One byte of hash.Write, by the table.
crcByte(h, b) ==
    LET t == IEEETable[Xor8(h[1], b)]
    IN <<Xor8(t[1], h[2]), Xor8(t[2], h[3]), Xor8(t[3], h[4]), t[4]>>
\* hash.Write(p) for p the bytes lo..hi of bs
crcWrite(h, bs, lo, hi) == FoldRange(LAMBDA c, i : crcByte(c, bs[i]), h, lo, hi)
Sum32(h) == <<255 - h[1], 255 - h[2], 255 - h[3], 255 - h[4]>>


\* The fileHeader of a CHGraph (binary.go 46-70).
HeaderOf(c) ==
    [Magic        |-> magicBytes,
     Version      |-> version,
     NumNodes     |-> c.NumNodes,
     NumOrigEdges |-> Len(c.OrigHead),
     NumShortcuts |-> Len(SelectSeq(c.FwdMiddle, LAMBDA m : m >= 0))
                        + Len(SelectSeq(c.BwdMiddle, LAMBDA m : m >= 0)),
     NumFwdEdges  |-> Len(c.FwdHead),
     NumBwdEdges  |-> Len(c.BwdHead)]

\* binary.Write of the header: the fields in order, little-endian.
HeaderBytes(hdr) ==
    hdr.Magic \o LE32(hdr.Version) \o LE32(hdr.NumNodes) \o LE32(hdr.NumOrigEdges)
        \o LE32(hdr.NumShortcuts) \o LE32(hdr.NumFwdEdges) \o LE32(hdr.NumBwdEdges)

\* binary.Read of the header from its 32 bytes.
ParseHeader(bs) ==
    [Magic        |-> SubSeq(bs, 1, 8),
     Version      |-> WordAt(bs, 8),
     NumNodes     |-> WordAt(bs, 12),
     NumOrigEdges |-> WordAt(bs, 16),
     NumShortcuts |-> WordAt(bs, 20),
     NumFwdEdges  |-> WordAt(bs, 24),
     NumBwdEdges  |-> WordAt(bs, 28)]

writeLenPrefixedUint32(s) == LE32(Len(s)) \o Bytes32(s)
writeLenPrefixedFloat64(s) == LE32(Len(s)) \o Bytes64(s)

\* What WriteBinary writes between the header and the CRC trailer
\* (binary.go 77-136); a slice of length 0 writes nothing.
Payload(c) ==
    Bytes64(c.NodeLat) \o Bytes64(c.NodeLon) \o Bytes32(c.Rank)
        \o Bytes32(c.FwdFirstOut) \o Bytes32(c.FwdHead)
        \o Bytes32(c.FwdWeight) \o Bytes32(c.FwdMiddle)
        \o Bytes32(c.BwdFirstOut) \o Bytes32(c.BwdHead)
        \o Bytes32(c.BwdWeight) \o Bytes32(c.BwdMiddle)
        \o Bytes32(c.OrigFirstOut) \o Bytes32(c.OrigHead) \o Bytes32(c.OrigWeight)
        \o writeLenPrefixedUint32(c.GeoFirstOut)
        \o writeLenPrefixedFloat64(c.GeoShapeLat)
        \o writeLenPrefixedFloat64(c.GeoShapeLon)

\* A file in the layout of WriteBinary: header, payload, and the CRC32 of
\* both as the trailer.
FileOf(hdr, payload) ==
    LET body == HeaderBytes(hdr) \o payload
    IN body \o Sum32(crcWrite(NewIEEE, body, 1, Len(body)))

\* The bytes at path once WriteBinary has returned nil.
WriteBinary(c) == FileOf(HeaderOf(c), Payload(c))


\* The reader: the offset in the file and the running hash of crc32Reader.
\* io.ReadFull of n elements of size bytes each succeeds when the file holds
\* them; the bytes read, all that are left when there are fewer, pass through
\* the hash.  n is a word: below 0 it stands for a count of 2^31 and more.
ReadFull(file, r, n, size) ==
    LET avail == Len(file) - r.pos
        ok == n >= 0 /\ n <= avail \div size
        got == IF ok THEN n * size ELSE avail
    IN [ok   |-> ok,
        data |-> SubSeq(file, r.pos + 1, r.pos + got),
        r    |-> [pos  |-> r.pos + got,
                  hash |-> crcWrite(r.hash, file, r.pos + 1, r.pos + got)]]

\* The arrays ReadBinary reads in order, each with the count it takes from
\* the header (binary.go 189-238); Rank is skipped through a fixed buffer.
Sections(hdr) ==
    LET sec(f, n, size, kind) == [field |-> f, n |-> n, size |-> size, kind |-> kind]
        n1 == Add32(hdr.NumNodes, 1)
    IN << sec("NodeLat", hdr.NumNodes, 8, "float64"),
          sec("NodeLon", hdr.NumNodes, 8, "float64"),
          sec("Rank", hdr.NumNodes, 4, "skip"),
          sec("FwdFirstOut", n1, 4, "uint32"),
          sec("FwdHead", hdr.NumFwdEdges, 4, "uint32"),
          sec("FwdWeight", hdr.NumFwdEdges, 4, "uint32"),
          sec("FwdMiddle", hdr.NumFwdEdges, 4, "int32"),
          sec("BwdFirstOut", n1, 4, "uint32"),
          sec("BwdHead", hdr.NumBwdEdges, 4, "uint32"),
          sec("BwdWeight", hdr.NumBwdEdges, 4, "uint32"),
          sec("BwdMiddle", hdr.NumBwdEdges, 4, "int32"),
          sec("OrigFirstOut", n1, 4, "uint32"),
          sec("OrigHead", hdr.NumOrigEdges, 4, "uint32"),
          sec("OrigWeight", hdr.NumOrigEdges, 4, "uint32") >>

Fields ==
    {"NodeLat", "NodeLon", "Rank", "FwdFirstOut", "FwdHead", "FwdWeight", "FwdMiddle",
     "BwdFirstOut", "BwdHead", "BwdWeight", "BwdMiddle",
     "OrigFirstOut", "OrigHead", "OrigWeight",
     "GeoFirstOut", "GeoShapeLat", "GeoShapeLon"}

Decode(data, size) == IF size = 8 THEN Floats(data) ELSE Words(data)

\* make([]T, n): the allocation is recorded with its element count.
Alloc(allocs, field, n, size) == Append(allocs, [field |-> field, n |-> n, size |-> size])

\* One "if result.X, err = read...Slice(r, n); err != nil { return }" of
\* ReadBinary.  A count of 0 yields nil without a read; the slice is made
\* before the bytes are read (binary.go 331-365).
readSection(file, st, sec) ==
    IF st.err # "nil" \/ sec.n = 0 THEN st
    ELSE LET rf == ReadFull(file, st.r, sec.n, sec.size)
             allocs == IF sec.kind = "skip" THEN st.allocs
                       ELSE Alloc(st.allocs, sec.field, sec.n, sec.size)
         IN IF ~rf.ok
                THEN [st EXCEPT !.r = rf.r, !.allocs = allocs, !.err = "read array",
                                !.errAt = sec.field]
            ELSE IF sec.kind = "skip" THEN [st EXCEPT !.r = rf.r]
            ELSE [st EXCEPT !.r = rf.r, !.allocs = allocs,
                            !.vals = [@ EXCEPT ![sec.field] = Decode(rf.data, sec.size)]]

\* The length-prefixed geometry arrays, each with math.MaxUint32 / size as
\* the limit of its length (binary.go 240-243, 385-405).
Optionals ==
    << [field |-> "GeoFirstOut", size |-> 4, limit |-> 1073741823],
       [field |-> "GeoShapeLat", size |-> 8, limit |-> 536870911],
       [field |-> "GeoShapeLon", size |-> 8, limit |-> 536870911] >>

\* readUint32SliceOptional / readFloat64SliceOptional, the error dropped by
\* the caller.
readOptional(file, st, opt) ==
    LET pre == ReadFull(file, st.r, 1, 4)
        n == WordAt(pre.data, 0)
    IN IF st.err # "nil" THEN st
       ELSE IF ~pre.ok THEN [st EXCEPT !.r = pre.r]
       ELSE IF n = 0 \/ Lt32(opt.limit, n) THEN [st EXCEPT !.r = pre.r]
       ELSE LET rf == ReadFull(file, pre.r, n, opt.size)
            IN [st EXCEPT !.r = rf.r,
                          !.allocs = Alloc(@, opt.field, n, opt.size),
                          !.vals = IF rf.ok
                                       THEN [@ EXCEPT ![opt.field] = Decode(rf.data, opt.size)]
                                       ELSE @]

validateCSR(firstOut, head, numNodes) ==
    /\ Len(firstOut) = numNodes + 1
    /\ Len(head) = At(firstOut, numNodes)
    /\ \A i \in 1..numNodes : ~Lt32(At(firstOut, i), At(firstOut, i - 1))
    /\ \A i \in 1..Len(head) : Lt32(head[i], numNodes)

\* The CHGraph ReadBinary builds from the arrays it has read.
LoadedGraph(hdr, vals) ==
    [NumNodes |-> hdr.NumNodes,
     NodeLat |-> vals["NodeLat"], NodeLon |-> vals["NodeLon"], Rank |-> vals["Rank"],
     FwdFirstOut |-> vals["FwdFirstOut"], FwdHead |-> vals["FwdHead"],
     FwdWeight |-> vals["FwdWeight"], FwdMiddle |-> vals["FwdMiddle"],
     BwdFirstOut |-> vals["BwdFirstOut"], BwdHead |-> vals["BwdHead"],
     BwdWeight |-> vals["BwdWeight"], BwdMiddle |-> vals["BwdMiddle"],
     OrigFirstOut |-> vals["OrigFirstOut"], OrigHead |-> vals["OrigHead"],
     OrigWeight |-> vals["OrigWeight"],
     GeoFirstOut |-> vals["GeoFirstOut"],
     GeoShapeLat |-> vals["GeoShapeLat"], GeoShapeLon |-> vals["GeoShapeLon"]]

\* What ReadBinary returns: the error ("nil" for none), the graph (<<>> for a
\* nil pointer, <<G>> for a pointer to G), and on the side the slices it
\* made and the number of bytes it took from the file.
Failed(err, errAt, st) ==
    [err |-> err, errAt |-> errAt, graph |-> <<>>, allocs |-> st.allocs, pos |-> st.r.pos]

\* The reads of ReadBinary from the first array to the last (binary.go 187-243).
readArrays(file, hdr, r0) ==
    LET secs == Sections(hdr)
    IN FoldRange(LAMBDA st, i :
                     IF i <= Len(secs) THEN readSection(file, st, secs[i])
                     ELSE readOptional(file, st, Optionals[i - Len(secs)]),
                 [r |-> r0, err |-> "nil", errAt |-> "", allocs |-> <<>>,
                  vals |-> [f \in Fields |-> <<>>]],
                 1, Len(secs) + Len(Optionals))

\* The end of ReadBinary: the CRC trailer, read from the file itself, and the
\* CSR invariants (binary.go 245-263).
checkAndReturn(file, hdr, st) ==
    IF st.err # "nil" THEN Failed(st.err, st.errAt, st)
    ELSE IF Len(file) - st.r.pos < 4 THEN Failed("read CRC32", "", st)
    ELSE IF SubSeq(file, st.r.pos + 1, st.r.pos + 4) # Sum32(st.r.hash)
        THEN Failed("CRC32 mismatch", "", st)
    ELSE IF ~validateCSR(st.vals["FwdFirstOut"], st.vals["FwdHead"], hdr.NumNodes)
        THEN Failed("forward CSR invalid", "", st)
    ELSE IF ~validateCSR(st.vals["BwdFirstOut"], st.vals["BwdHead"], hdr.NumNodes)
        THEN Failed("backward CSR invalid", "", st)
    ELSE [err |-> "nil", errAt |-> "", graph |-> <<LoadedGraph(hdr, st.vals)>>,
          allocs |-> st.allocs, pos |-> st.r.pos + 4]

\* ReadBinary of a file that could be opened.
ReadBinary(file) ==
    LET r0 == [pos |-> 0, hash |-> NewIEEE]
        rh == ReadFull(file, r0, 1, headerSize)
        hdr == ParseHeader(rh.data)
        st == [r |-> rh.r, allocs |-> <<>>]
    IN IF ~rh.ok THEN Failed("read header", "", st)
       ELSE IF hdr.Magic # magicBytes THEN Failed("invalid magic bytes", "", st)
       ELSE IF hdr.Version # version THEN Failed("unsupported version", "", st)
       ELSE IF Lt32(maxNodes, hdr.NumNodes) THEN Failed("NumNodes exceeds limit", "", st)
       ELSE IF Lt32(maxEdges, hdr.NumFwdEdges) \/ Lt32(maxEdges, hdr.NumBwdEdges)
           THEN Failed("edge count exceeds limit", "", st)
       ELSE checkAndReturn(file, hdr, readArrays(file, hdr, rh.r))


-----------------------------------------------------------------------------
(* The graphs of the model *)

\* Node i of an n-node graph lies on a grid with three columns.
GridLat(n) == [i \in 1..n |-> 10 * ((i - 1) \div 3)]
GridLon(n) == [i \in 1..n |-> 10 * ((i - 1) % 3)]
Grid(n, edges) == CSRGraph(n, edges, GridLat(n), GridLon(n))

\* k parallel edges from -> to with the weights w, w-1, .., w-k+1.
Parallel(from, to, w, k) == [i \in 1..k |-> <<from, to, w + 1 - i>>]

\* buildTestGraph / buildTestGraphAndCH: the 2x3 bidirectional ladder.
Ladder ==
    Grid(6, << <<0, 1, 100>>, <<0, 3, 300>>, <<1, 0, 100>>, <<1, 2, 200>>,
               <<2, 1, 200>>, <<2, 5, 400>>, <<3, 0, 300>>, <<3, 4, 500>>,
               <<4, 3, 500>>, <<4, 5, 600>>, <<5, 2, 400>>, <<5, 4, 600>> >>)

\* TestContractLinearGraph: the one-way chain.
Chain ==
    Grid(5, << <<0, 1, 100>>, <<1, 2, 200>>, <<2, 3, 300>>, <<3, 4, 400>> >>)

Star ==
    Grid(4, << <<0, 1, 1>>, <<0, 2, 2>>, <<0, 3, 3>>,
               <<1, 0, 1>>, <<2, 0, 2>>, <<3, 0, 3>> >>)

\* Two parallel edges 0 -> 1 of different weight.
ParallelPair ==
    Grid(3, << <<0, 1, 5>>, <<0, 1, 3>>, <<1, 2, 2>>, <<2, 0, 4>> >>)

\* A bidirectional triangle with the dead-end spur 2 - 3.
Spur ==
    Grid(4, << <<0, 1, 2>>, <<0, 2, 3>>, <<1, 0, 2>>, <<1, 2, 2>>,
               <<2, 0, 3>>, <<2, 1, 2>>, <<2, 3, 1>>, <<3, 2, 1>> >>)

\* Two long roads 0 -> 1, one 1 -> 0, and the short ways around them
\* through node 2.
Detour ==
    Grid(3, << <<0, 1, 5>>, <<0, 1, 6>>, <<0, 2, 1>>, <<1, 0, 5>>, <<1, 2, 1>>,
               <<2, 0, 1>>, <<2, 1, 1>> >>)

\* A two-way ring of nine nodes: between nodes 1 and 2 the way through
\* node 0 has two edges of weight 5, the way around has seven of weight 1.
RingEdges ==
    << <<0, 1, 5>>, <<0, 2, 5>>, <<1, 0, 5>>, <<1, 3, 1>>, <<2, 0, 5>>, <<2, 8, 1>>,
       <<3, 1, 1>>, <<3, 4, 1>>, <<4, 3, 1>>, <<4, 5, 1>>, <<5, 4, 1>>, <<5, 6, 1>>,
       <<6, 5, 1>>, <<6, 7, 1>>, <<7, 6, 1>>, <<7, 8, 1>>, <<8, 2, 1>>, <<8, 7, 1>> >>
Ring == Grid(9, RingEdges)

\* One two-way road of one metre.
TwoWayRoad == Grid(2, << <<0, 1, 1000>>, <<1, 0, 1000>> >>)

\* A one-way cycle 0 -> 1 -> 2 -> 0 with ManyLanes parallel edges per hop:
\* contracting any node needs ManyLanes^2 shortcuts.
ManyLanes == 33
LaneCycle ==
    Grid(3, Parallel(0, 1, ManyLanes, ManyLanes)
            \o Parallel(1, 2, ManyLanes, ManyLanes)
            \o Parallel(2, 0, ManyLanes, ManyLanes))

\* The lane cycle with heavier lanes and a short way 0 -> 3 -> 1: node 3 is
\* contracted first and leaves the shortcut 0 -> 1, then the limit stops
\* the contraction.
SpurCycle ==
    Grid(4, Parallel(0, 1, ManyLanes + 5, ManyLanes) \o << <<0, 3, 1>> >>
            \o Parallel(1, 2, ManyLanes + 5, ManyLanes)
            \o Parallel(2, 0, ManyLanes + 5, ManyLanes)
            \o << <<3, 1, 1>> >>)

\* A node with LongFan parallel out-edges of decreasing weight: relaxing it
\* pushes LongFan heap entries for one node, all but one of them stale.
LongFan == 260
SideLanes == 27
FanGraph ==
    Grid(4, Parallel(0, 1, LongFan, LongFan) \o << <<0, 2, 5000>>, <<1, 2, LongFan>> >>
            \o Parallel(2, 3, SideLanes, SideLanes)
            \o Parallel(3, 2, SideLanes, SideLanes))

\* Every simple digraph on three nodes with weights in 1..MaxW.
MaxW == 2
Pairs == << <<0, 1>>, <<0, 2>>, <<1, 0>>, <<1, 2>>, <<2, 0>>, <<2, 1>> >>
FamilyGraph(f) ==
    LET present == SelectSeq([k \in 1..Len(Pairs) |-> k], LAMBDA k : f[k] > 0)
    IN Grid(3, [i \in 1..Len(present) |->
                  <<Pairs[present[i]][1], Pairs[present[i]][2], f[present[i]]>>])
Family == {FamilyGraph(f) : f \in [1..Len(Pairs) -> 0..MaxW]}

\* The two-way road with one shape point on each of its edges.
BendRoad ==
    [TwoWayRoad EXCEPT !.GeoFirstOut = <<0, 1, 2>>,
                       !.GeoShapeLat = <<3, 3>>, !.GeoShapeLon = <<7, 7>>]

\* TestContractSingleNode's graph as a CSR graph: one node, no edge.
OneNode == Grid(1, <<>>)

\* The graphs a server is started on, the graphs whose overlay is written to
\* a file, and all graphs.
BinGraphs == {EmptyGraph, OneNode, TwoWayRoad, BendRoad, Detour}
\* One-way streets 0 -> 2 -> 3 and 1 -> 3: nothing leads from street 1 -> 3
\* to street 0 -> 2.
Fork == Grid(4, << <<0, 2, 3>>, <<1, 3, 4>>, <<2, 3, 2>> >>)

\* A two-way road 0 - 1 and the edge 0 -> 0 that the parser emits for a way
\* naming node 0 twice in a row (distance 0, weight forced to 1); Build
\* keeps it.
LoopRoad == Grid(2, << <<0, 0, 1>>, <<0, 1, 3>>, <<1, 0, 3>> >>)

RoadGraphs ==
    {TwoWayRoad, Chain, Spur, ParallelPair, Detour, FanGraph, Fork, LoopRoad}
Graphs == Family \cup RoadGraphs \cup BinGraphs \cup {Ladder, Star, LaneCycle}


-----------------------------------------------------------------------------
(* pkg/routing: the Snapper (snap.go) and geo.PointToSegmentDist.            *)
(* Coordinates are whole multiples of a quarter of a grid cell (0.0025       *)
(* degrees).  float64 arithmetic is taken as exact: a distance is the        *)
(* fraction n/d that its square has in these units, +Inf the fraction 1/0,   *)
(* and the graphs lie at the equator, where cosLat is 1.                     *)

\* gridCellSize in units of 0.0025 degrees, the square of degToMeters *
\* 0.0025 (277.99 m) rounded, and maxSnapDistMeters.
CellUnits == 4
UnitMetersSq == 77277
maxSnapDistMeters == 500

gridCell(lat, lon) == <<lat \div CellUnits, lon \div CellUnits>>

\* uint64(uint32(latIdx))<<32 | uint64(uint32(lonIdx)), as its two words.
cellKey(latIdx, lonIdx) == <<latIdx, lonIdx>>
KeyLess(a, b) == Lt32(a[1], b[1]) \/ (a[1] = b[1] /\ Lt32(a[2], b[2]))

Min2(a, b) == IF a < b THEN a ELSE b
Max2(a, b) == IF a < b THEN b ELSE a

\* NewSnapper's second pass: one cellEdge for every cell of the bounding
\* box of every edge.
CellEdges(gr) ==
    {[key |-> cellKey(la, lo), edgeIdx |-> e, source |-> u] :
        <<u, e, la, lo>> \in
            {x \in (0..(gr.NumNodes - 1)) \X (0..(gr.NumEdges - 1)) \X (-8..8) \X (-8..8) :
                LET u == x[1]
                    e == x[2]
                    v == At(gr.Head, e)
                    cLo == gridCell(Min2(At(gr.NodeLat, u), At(gr.NodeLat, v)),
                                    Min2(At(gr.NodeLon, u), At(gr.NodeLon, v)))
                    cHi == gridCell(Max2(At(gr.NodeLat, u), At(gr.NodeLat, v)),
                                    Max2(At(gr.NodeLon, u), At(gr.NodeLon, v)))
                IN /\ e \in EdgesFrom(gr, u)
                   /\ cLo[1] <= x[3] /\ x[3] <= cHi[1]
                   /\ cLo[2] <= x[4] /\ x[4] <= cHi[2]}}

\* sort.Slice by key: every order of the entries in which the keys ascend
\* (the sort is not stable).
RECURSIVE SortedByKey(_)
SortedByKey(S) ==
    IF S = {} THEN {<<>>}
    ELSE UNION {{<<m>> \o t : t \in SortedByKey(S \ {m})} :
                    m \in {x \in S : \A y \in S : ~KeyLess(y.key, x.key)}}

\* sort.Search on a sorted slice: the first index at which the test holds.
cellRange(edges, key) ==
    LET n == Len(edges)
        lo == Cardinality({i \in 1..n : KeyLess(edges[i].key, key)})
        hi == Cardinality({i \in 1..n : ~KeyLess(key, edges[i].key)})
    IN IF lo >= n \/ edges[lo + 1].key # key THEN <<>>
       ELSE SubSeq(edges, lo + 1, hi)

RECURSIVE GCD(_, _)
GCD(a, b) == IF b = 0 THEN a ELSE GCD(b, a % b)
Frac(n, d) == LET k == GCD(n, d) IN [n |-> n \div k, d |-> d \div k]
Inf == [n |-> 1, d |-> 0]
FracLess(x, y) == x.n * y.d < y.n * x.d

\* geo.PointToSegmentDist: the distance and the ratio t, clamped to [0, 1].
PointToSegmentDist(pLat, pLon, aLat, aLon, bLat, bLon) ==
    LET dx == bLon - aLon
        dy == bLat - aLat
        lenSq == dx * dx + dy * dy
        raw == (pLon - aLon) * dx + (pLat - aLat) * dy
        t == IF lenSq > 0
                 THEN IF raw < 0 THEN Frac(0, 1)
                      ELSE IF raw > lenSq THEN Frac(1, 1)
                      ELSE Frac(raw, lenSq)
                 ELSE Frac(0, 1)
        ex == (pLon - aLon) * t.d - t.n * dx
        ey == (pLat - aLat) * t.d - t.n * dy
    IN [dist |-> Frac(ex * ex + ey * ey, t.d * t.d), ratio |-> t]

\* bestDist > maxSnapDistMeters.  A distance of more than two units is
\* above 500 m.
TooFar(dist) ==
    \/ dist.d = 0
    \/ dist.n > 4 * dist.d
    \/ dist.n * UnitMetersSq > maxSnapDistMeters * maxSnapDistMeters * dist.d

ZeroSnap == [EdgeIdx |-> 0, NodeU |-> 0, NodeV |-> 0, Ratio |-> Frac(0, 1), Dist |-> Frac(0, 1)]

\* The body of Snap's innermost loop for the entry ce.
snapEdgeLatest(gr, lat, lng, best, ce) ==
    LET u == ce.source
        v == At(gr.Head, ce.edgeIdx)
        pd == PointToSegmentDist(lat, lng, At(gr.NodeLat, u), At(gr.NodeLon, u),
                                 At(gr.NodeLat, v), At(gr.NodeLon, v))
    IN [bestDist |-> pd.dist,
        bestResult |-> [EdgeIdx |-> ce.edgeIdx, NodeU |-> u, NodeV |-> v,
                        Ratio |-> pd.ratio, Dist |-> pd.dist]]
snapEdge(gr, lat, lng, best, ce) ==
    LET u == ce.source
        v == At(gr.Head, ce.edgeIdx)
        pd == PointToSegmentDist(lat, lng, At(gr.NodeLat, u), At(gr.NodeLon, u),
                                 At(gr.NodeLat, v), At(gr.NodeLon, v))
    IN IF FracLess(pd.dist, best.bestDist)
           THEN [bestDist |-> pd.dist,
                 bestResult |-> [EdgeIdx |-> ce.edgeIdx, NodeU |-> u, NodeV |-> v,
                                 Ratio |-> pd.ratio, Dist |-> pd.dist]]
       ELSE best

\* The cells of the 3x3 block, in the order of Snap's two loops.
BlockKeys(lat, lng) ==
    LET center == gridCell(lat, lng)
    IN [k \in 1..9 |-> cellKey(center[1] + ((k - 1) \div 3) - 1,
                             center[2] + ((k - 1) % 3) - 1)]

Snap(edges, gr, lat, lng) ==
    LET keys == BlockKeys(lat, lng)
        scan(best, k) ==
            LET range == cellRange(edges, keys[k])
            IN FoldRange(LAMBDA b, i : snapEdge(gr, lat, lng, b, range[i]),
                         best, 1, Len(range))
        best == FoldRange(scan, [bestDist |-> Inf, bestResult |-> ZeroSnap], 1, 9)
    IN IF TooFar(best.bestDist)
           THEN [err |-> "ErrPointTooFar", res |-> ZeroSnap]
       ELSE [err |-> "nil", res |-> best.bestResult]

\* Roads for the snapper, by the coordinates of their nodes: a two-way
\* diagonal inside one cell, a one-way road across three cells, two roads
\* that meet south-west of the origin, a road between two nodes at the same
\* place, and parallel roads in neighbouring cells with a lane between.
Road(lat, lon, edges) == CSRGraph(Len(lat), edges, lat, lon)
DiagonalRoad == Road(<<5, 7>>, <<5, 7>>, << <<0, 1, 700>>, <<1, 0, 700>> >>)
LongRoad == Road(<<1, 2>>, <<1, 10>>, << <<0, 1, 2500>> >>)
SouthWest == Road(<<-3, -1, -6>>, <<-2, -6, -5>>, << <<0, 1, 1200>>, <<0, 2, 1100>> >>)
SamePlace == Road(<<2, 2, 6>>, <<3, 3, 3>>, << <<0, 1, 1>>, <<1, 2, 1100>> >>)
TwoStreets ==
    Road(<<0, 0, 5, 5, 3, 1>>, <<0, 6, 1, 6, 2, 4>>,
         << <<0, 1, 1600>>, <<2, 3, 1400>>, <<4, 5, 800>> >>)
SnapGraphs == {EmptyGraph, DiagonalRoad, LongRoad, SouthWest, SamePlace, TwoStreets}

\* The points asked for.
SnapLats == -10..13
SnapLngs == -10..13


-----------------------------------------------------------------------------
(* pkg/api: the concurrency limiter of withMiddleware.  srv.sem is the       *)
(* number of tokens in the channel sem, srv.reqs[r] the goroutine that       *)
(* serves request r.                                                         *)

\* runtime.NumCPU() of the host, and DefaultConfig's MaxConcurrent.
NumCPU == 1
MaxConcurrent == NumCPU * 2

\* The requests in flight at once: one more than there are slots.
Requests == 1..(MaxConcurrent + 1)

NoRequest ==
    [pc |-> "none", status |-> 0, retryAfter |-> FALSE, ctxDone |-> FALSE,
     panicking |-> FALSE, sawFull |-> FALSE, handlerRuns |-> 0, released |-> 0]
NoServer == [sem |-> 0, reqs |-> [r \in Requests |-> NoRequest]]

-----------------------------------------------------------------------------
(* The state machine: Contract, then queries on its result *)

Nodes(gr) == 0..(gr.NumNodes - 1)
Source(gr, e) == CHOOSE u \in Nodes(gr) : e \in EdgesFrom(gr, u)

\* What Snap can return: of the edges between one pair of nodes, which share
\* their geometry, the one of lowest index (Snap keeps the first candidate on
\* a tie; Build sorts the edges by source and target, so they are adjacent).
\* The requests of the model snap onto the first MaxSnapEdges of them.
MaxSnapEdges == 2
FirstOfPair(gr) ==
    {e \in 0..(gr.NumEdges - 1) :
        \/ e = At(gr.FirstOut, Source(gr, e))
        \/ At(gr.Head, e - 1) # At(gr.Head, e)}
SnapEdges(gr) ==
    LET first == FirstOfPair(gr)
    IN {e \in first : Cardinality({e2 \in first : e2 < e}) < MaxSnapEdges}
Snaps(gr) ==
    {sp \in {[EdgeIdx |-> e, NodeU |-> Source(gr, e), NodeV |-> At(gr.Head, e),
              Ratio |-> r] : e \in SnapEdges(gr), r \in 0..RatioDen} :
        \* PointToSegmentDist returns ratio 0 for a segment without length
        sp.NodeU = sp.NodeV => sp.Ratio = 0}

NoSnap == [EdgeIdx |-> noNode, NodeU |-> noNode, NodeV |-> noNode, Ratio |-> 0]
Idle ==
    [pc |-> "idle", kind |-> "none", s |-> noNode, t |-> noNode,
     startSnap |-> NoSnap, endSnap |-> NoSnap,
     mu |-> MaxUint32, meetNode |-> noNode, iterations |-> 0, sawCancel |-> FALSE]
NoResult ==
    [kind |-> "none", s |-> noNode, t |-> noNode,
     startSnap |-> NoSnap, endSnap |-> NoSnap, sawCancel |-> FALSE,
     err |-> "none", mu |-> MaxUint32, meetNode |-> noNode,
     overlayNodes |-> <<>>, origNodes |-> <<>>, Geometry |-> <<>>]

\* A path of the disk: whether a file is there, and its bytes.  The disk
\* holds the path given to WriteBinary, a second path, and path + ".tmp".
NoFile == [exists |-> FALSE, bytes |-> <<>>]
FileWith(bytes) == [exists |-> TRUE, bytes |-> bytes]
Paths == {"written", "other"}
NotLoaded ==
    [path |-> "none", err |-> "none", errAt |-> "", graph |-> <<>>, allocs |-> <<>>,
     pos |-> 0]

\* No WriteBinary call in steps has begun.
NoWrite == [pc |-> "idle", n |-> 0, err |-> "nil", before |-> NoFile]

\* The largest-component stage has not run.
NoComp == [pc |-> "start", nodes |-> <<>>, filtered |-> EmptyGraph]

\* The goroutines that call Route on the one Engine, and what a call that
\* has not returned yet has as its result.
NumCallers == 2
Callers == 1..NumCallers
NoRoute ==
    [err |-> "none", mu |-> MaxUint32, meetNode |-> noNode,
     overlayNodes |-> <<>>, origNodes |-> <<>>, Geometry |-> <<>>]

\* No Route call has started on the Engine: sync.Pool starts empty, and no
\* QueryState has been allocated by its New function.
NoCall ==
    [pc |-> "idle", startSnap |-> NoSnap, endSnap |-> NoSnap, qs |-> 0,
     mu |-> MaxUint32, meetNode |-> noNode, iterations |-> 0, result |-> NoRoute]
NoEngine == [pool |-> {}, states |-> <<>>, calls |-> [c \in Callers |-> NoCall]]

\* NewSnapper has not run.
NoSnapper ==
    [pc |-> "new", edges |-> <<>>, lat |-> 0, lng |-> 0,
     out |-> [err |-> "none", res |-> ZeroSnap]]

\* Nothing has been parsed: the graph is given.
NoBuild == [pc |-> "none", edges |-> <<>>]

\* No Union or Find has been called.
NoUnion == [op |-> "none", x |-> 0, y |-> 0, ok |-> FALSE, root |-> 0]
NoUnionFind ==
    [uf |-> [parent |-> <<>>, rank |-> <<>>, size |-> <<>>], sets |-> <<>>,
     last |-> NoUnion]

\* unpackOverlayPath has not been called.
NoUnpack ==
    [pc |-> "none", c |-> EmptyCHGraph, overlayNodes |-> <<>>, i |-> 0,
     stack |-> <<>>, result |-> <<>>, skipped |-> 0]

\* What no operation has touched yet.
InitRest ==
    /\ chg = EmptyCHGraph
    /\ qs = NewQueryState(0)
    /\ run = Idle
    /\ cancelled = FALSE
    /\ out = NoResult
    /\ disk = [written |-> NoFile, other |-> NoFile, tmp |-> NoFile]
    /\ loaded = NotLoaded
    /\ wr = NoWrite
    /\ comp = NoComp
    /\ eng = NoEngine
    /\ snapper = NoSnapper
    /\ srv = NoServer

\* The state before Contract is called on one of the graphs of S.
InitOn(S) ==
    /\ g \in S
    /\ cs = ContractStart(g)
    /\ bld = NoBuild
    /\ dsu = NoUnionFind
    /\ unp = NoUnpack
    /\ InitRest

Init == InitOn(Graphs)

\* One iteration of Contract's main loop.
ContractStep ==
    /\ cs.pc = "loop"
    /\ cs' = ContractIter(cs)
    /\ UNCHANGED <<g, chg, qs, run, cancelled, out, disk, loaded, restVars>>

\* The locals of Contract are gone once it has returned.
Done ==
    [pc |-> "done", outAdj |-> <<>>, inAdj |-> <<>>, contracted |-> <<>>,
     rank |-> <<>>, contractedNeighbors |-> <<>>, level |-> <<>>, pq |-> <<>>,
     ws |-> newWitnessState(0), order |-> 0]

\* Contract returns; NewEngine wraps the result (the pool's first QueryState).
ContractReturn ==
    /\ cs.pc \in {"core", "returned"}
    /\ chg' = ContractEnd(g, cs)
    /\ cs' = Done
    /\ qs' = NewQueryState(chg'.NumNodes)
    /\ UNCHANGED <<g, run, cancelled, out, disk, loaded, restVars>>

\* cmd/preprocess: graph.Build on the parse result.
BuildStep ==
    /\ bld.pc = "parsed"
    /\ \E order \in SortOrders(CompactEdges(bld.edges)) : g' = Build(bld.edges, order)
    /\ bld' = [bld EXCEPT !.pc = "built"]
    /\ UNCHANGED <<cs, chg, queryVars, binVars, bldRest>>

\* cmd/preprocess: g = FilterToComponent(..) and the call of ch.Contract(g).
ContractCall ==
    /\ bld.pc = "built" /\ comp.pc = "filtered"
    /\ g' = comp.filtered
    /\ cs' = ContractStart(comp.filtered)
    /\ bld' = [bld EXCEPT !.pc = "contract"]
    /\ UNCHANGED <<chg, queryVars, binVars, bldRest>>

\* TestCHDijkstraCorrectness: a fresh QueryState seeded with s and t at 0.
TestSeed ==
    /\ cs.pc = "done" /\ run.pc = "idle"
    /\ \E s \in Nodes(g), t \in Nodes(g) :
        /\ s # t
        /\ qs' = LET q0 == NewQueryState(chg.NumNodes)
                     q1 == [touchFwd(q0, s, 0) EXCEPT !.FwdPQ = Push(@, s, 0)]
                 IN [touchBwd(q1, t, 0) EXCEPT !.BwdPQ = Push(@, t, 0)]
        /\ run' = [Idle EXCEPT !.pc = "searching", !.kind = "test", !.s = s, !.t = t]
    /\ cancelled' = FALSE
    /\ out' = NoResult
    /\ UNCHANGED <<chVars, binVars, restVars>>

\* Route up to the call of runCHDijkstra (engine 60-83), the two snaps given.
RouteStart ==
    /\ cs.pc = "done" /\ run.pc = "idle"
    /\ g \in RoadGraphs
    /\ \E startSnap \in Snaps(g), endSnap \in Snaps(g) :
        /\ qs' = seedBackward(seedForward(qs, g, startSnap), g, endSnap)
        /\ run' = [Idle EXCEPT !.pc = "searching", !.kind = "route",
                               !.startSnap = startSnap, !.endSnap = endSnap]
    /\ cancelled' = FALSE
    /\ out' = NoResult
    /\ UNCHANGED <<chVars, binVars, restVars>>

\* One pass through the loop of runCHDijkstra.
SearchStep ==
    /\ run.pc = "searching"
    /\ LET st == dijkstraIter(chg, [q |-> qs, mu |-> run.mu, meetNode |-> run.meetNode,
                                    iterations |-> run.iterations, returned |-> FALSE],
                              cancelled)
       IN /\ qs' = st.q
          /\ run' = [run EXCEPT !.mu = st.mu, !.meetNode = st.meetNode,
                                !.iterations = st.iterations,
                                !.pc = IF st.returned THEN "searched" ELSE "searching",
                                !.sawCancel = st.returned /\ st.iterations > run.iterations]
    /\ UNCHANGED <<g, cs, chg, cancelled, out, disk, loaded, restVars>>

\* The caller's context is cancelled while the search runs.
Cancel ==
    /\ run.pc = "searching" /\ run.kind = "route"
    /\ ~cancelled
    /\ cancelled' = TRUE
    /\ UNCHANGED <<g, cs, chg, qs, run, out, disk, loaded, restVars>>

\* The rest of Route after runCHDijkstra, with the deferred Reset; the test
\* only reads mu.
Finish ==
    /\ run.pc = "searched"
    /\ LET r == IF run.kind = "route"
                    THEN RouteTail(chg, g, qs, run.mu, run.meetNode)
                    ELSE [err |-> "nil", mu |-> run.mu, meetNode |-> run.meetNode,
                          overlayNodes |-> <<>>, origNodes |-> <<>>, Geometry |-> <<>>]
       IN out' = [kind |-> run.kind, s |-> run.s, t |-> run.t,
                  startSnap |-> run.startSnap, endSnap |-> run.endSnap,
                  sawCancel |-> run.sawCancel,
                  err |-> r.err, mu |-> r.mu, meetNode |-> r.meetNode,
                  overlayNodes |-> r.overlayNodes, origNodes |-> r.origNodes,
                  Geometry |-> r.Geometry]
    /\ qs' = IF run.kind = "route" THEN Reset(qs) ELSE NewQueryState(chg.NumNodes)
    /\ run' = Idle
    /\ UNCHANGED <<g, cs, chg, cancelled, binVars, restVars>>

Next ==
    \/ ContractStep
    \/ ContractReturn
    \/ TestSeed
    \/ RouteStart
    \/ SearchStep
    \/ Cancel
    \/ Finish

Spec == Init /\ [][Next]_vars

\* Contract alone, on every graph of the model.
NextContract ==
    \/ ContractStep
    \/ ContractReturn

SpecContract == Init /\ [][NextContract]_vars

\* Contract on the graphs above and on the ring, whose way around is longer
\* than the hop limit of the witness search.
InitShortcut == InitOn(Graphs \cup {Ring, SpurCycle})
SpecShortcut == InitShortcut /\ [][NextContract]_vars

\* Contract is one sequential loop on one goroutine: while it can take a step
\* it takes one.  This is WF_vars(NextContract) with ENABLED <<NextContract>>_vars
\* written out: a step is possible, and changes cs, exactly while cs.pc # "done".
Scheduled == []<>(cs.pc = "done") \/ []<><<NextContract>>_vars
SpecTerminate == InitShortcut /\ [][NextContract]_vars /\ Scheduled

-----------------------------------------------------------------------------
(* Concurrent Route calls on one Engine.  eng.states[i] is the i-th          *)
(* QueryState the pool's New function allocated, eng.pool the set of those    *)
(* the pool holds, eng.calls[c].qs the one caller c took (0 for none).  The   *)
(* callers pass contexts that are never cancelled.                            *)

\* The requests of the callers: both snaps succeed, at one of two ratios.
ConcRatios == {1, RatioDen - 1}
ConcSnaps(gr) == {sn \in Snaps(gr) : sn.Ratio \in ConcRatios}
ConcGraphs == {TwoWayRoad, Spur, Detour}

\* The QueryStates New may allocate: the pool may call New although it
\* holds a QueryState (a Get on another P, or after a garbage collection).
MaxStates == NumCallers + 1

Call(c) == eng.calls[c]
SetCall(c, rec) == [eng.calls EXCEPT ![c] = rec]

\* Route 62-69: the two calls of Snap, which only read the snapper.
RouteSnap(c) ==
    /\ cs.pc = "done"
    /\ Call(c).pc \in {"idle", "returned"}
    /\ \E startSnap \in ConcSnaps(g), endSnap \in ConcSnaps(g) :
        eng' = [eng EXCEPT !.calls =
                    SetCall(c, [NoCall EXCEPT !.pc = "snapped",
                                              !.startSnap = startSnap,
                                              !.endSnap = endSnap])]
    /\ UNCHANGED <<chVars, queryVars, binVars, engRest>>

\* Route 73: qsPool.Get takes a QueryState out of the pool, or has New
\* allocate one (NewEngine 53-55).
RouteGet(c) ==
    /\ Call(c).pc = "snapped"
    /\ \/ \E i \in eng.pool :
            eng' = [eng EXCEPT !.pool = @ \ {i},
                               !.calls = SetCall(c, [Call(c) EXCEPT !.pc = "got", !.qs = i])]
       \/ /\ Len(eng.states) < MaxStates
          /\ eng' = [eng EXCEPT !.states = Append(@, NewQueryState(chg.NumNodes)),
                                !.calls = SetCall(c, [Call(c) EXCEPT
                                              !.pc = "got", !.qs = Len(eng.states) + 1])]
    /\ UNCHANGED <<chVars, queryVars, binVars, engRest>>

\* Route 80-82: the seeds, written to the caller's QueryState.
RouteSeed(c) ==
    /\ Call(c).pc = "got"
    /\ eng' = [eng EXCEPT
                  !.states[Call(c).qs] =
                      seedBackward(seedForward(@, g, Call(c).startSnap), g, Call(c).endSnap),
                  !.calls = SetCall(c, [Call(c) EXCEPT !.pc = "searching"])]
    /\ UNCHANGED <<chVars, queryVars, binVars, engRest>>

\* One pass through the loop of runCHDijkstra on the caller's QueryState.
RouteSearch(c) ==
    /\ Call(c).pc = "searching"
    /\ LET st == dijkstraIter(chg, [q |-> eng.states[Call(c).qs], mu |-> Call(c).mu,
                                    meetNode |-> Call(c).meetNode,
                                    iterations |-> Call(c).iterations,
                                    returned |-> FALSE], FALSE)
       IN eng' = [eng EXCEPT
                     !.states[Call(c).qs] = st.q,
                     !.calls = SetCall(c, [Call(c) EXCEPT
                                   !.mu = st.mu, !.meetNode = st.meetNode,
                                   !.iterations = st.iterations,
                                   !.pc = IF st.returned THEN "searched" ELSE "searching"])]
    /\ UNCHANGED <<chVars, queryVars, binVars, engRest>>

\* Route 85-107 and the first half of the deferred function (75): the
\* result is built from the caller's QueryState, which Reset then clears.
RouteResult(c) ==
    /\ Call(c).pc = "searched"
    /\ eng' = [eng EXCEPT
                  !.states[Call(c).qs] = Reset(@),
                  !.calls = SetCall(c, [Call(c) EXCEPT
                                !.pc = "reset",
                                !.result = RouteTail(chg, g, eng.states[Call(c).qs],
                                                     Call(c).mu, Call(c).meetNode)])]
    /\ UNCHANGED <<chVars, queryVars, binVars, engRest>>

\* The second half of the deferred function (76): qsPool.Put, and Route
\* returns.
RoutePut(c) ==
    /\ Call(c).pc = "reset"
    /\ eng' = [eng EXCEPT !.pool = @ \cup {Call(c).qs},
                          !.calls = SetCall(c, [Call(c) EXCEPT !.pc = "returned", !.qs = 0])]
    /\ UNCHANGED <<chVars, queryVars, binVars, engRest>>

InitConc == InitOn(ConcGraphs)

NextConc ==
    \/ ContractStep
    \/ ContractReturn
    \/ \E c \in Callers : RouteSnap(c)
    \/ \E c \in Callers : RouteGet(c)
    \/ \E c \in Callers : RouteSeed(c)
    \/ \E c \in Callers : RouteSearch(c)
    \/ \E c \in Callers : RouteResult(c)
    \/ \E c \in Callers : RoutePut(c)

SpecConc == InitConc /\ [][NextConc]_vars

-----------------------------------------------------------------------------
(* The Snapper on its own: NewSnapper, then calls of Snap *)

\* NewSnapper (called by NewEngine on the original graph).
NewSnapperStep ==
    /\ snapper.pc = "new"
    /\ \E edges \in SortedByKey(CellEdges(g)) :
        snapper' = [snapper EXCEPT !.pc = "indexed", !.edges = edges]
    /\ UNCHANGED <<chVars, queryVars, binVars, snRest>>

\* One call of Snap, up to its return.
SnapStep ==
    /\ snapper.pc = "indexed"
    /\ \E lat \in SnapLats, lng \in SnapLngs :
        snapper' = [snapper EXCEPT !.pc = "snapped", !.lat = lat, !.lng = lng,
                         !.out = Snap(snapper.edges, g, lat, lng)]
    /\ UNCHANGED <<chVars, queryVars, binVars, snRest>>

\* The caller has taken the answer; the Snapper is as NewSnapper left it.
SnapReturn ==
    /\ snapper.pc = "snapped"
    /\ snapper' = [NoSnapper EXCEPT !.pc = "indexed", !.edges = snapper.edges]
    /\ UNCHANGED <<chVars, queryVars, binVars, snRest>>

InitSnap == InitOn(SnapGraphs)
NextSnap == NewSnapperStep \/ SnapStep \/ SnapReturn
SpecSnap == InitSnap /\ [][NextSnap]_vars

-----------------------------------------------------------------------------
(* The HTTP host: requests through withMiddleware *)

Req(r) == srv.reqs[r]
SetReq(r, rec) == [srv.reqs EXCEPT ![r] = rec]

\* "case sem <- struct{}{}" can proceed: the channel's buffer has room.
CanSendAlways(sem) == TRUE
CanSend(sem) == sem < MaxConcurrent

\* A request reaches the wrapped handler function (server 80-89): the
\* headers are set; the goroutine stands before the select.
Arrive(r) ==
    /\ Req(r).pc \in {"none", "done"}
    /\ srv' = [srv EXCEPT !.reqs = SetReq(r, [NoRequest EXCEPT !.pc = "select"])]
    /\ UNCHANGED <<chVars, queryVars, binVars, srvRest>>

\* The select (92-99): a token is sent and the receive is deferred, or the
\* default case answers 503 with Retry-After and returns.
Select(r) ==
    /\ Req(r).pc = "select"
    /\ IF CanSend(srv.sem)
           THEN srv' = [srv EXCEPT !.sem = @ + 1,
                                   !.reqs = SetReq(r, [Req(r) EXCEPT !.pc = "admitted"])]
       ELSE srv' = [srv EXCEPT !.reqs = SetReq(r, [Req(r) EXCEPT
                                   !.pc = "done", !.sawFull = TRUE,
                                   !.retryAfter = TRUE, !.status = 503])]
    /\ UNCHANGED <<chVars, queryVars, binVars, srvRest>>

\* The recovery is deferred, the timeout context made and its cancel
\* deferred, and the handler is called (102-114).
Invoke(r) ==
    /\ Req(r).pc = "admitted"
    /\ srv' = [srv EXCEPT !.reqs = SetReq(r, [Req(r) EXCEPT
                              !.pc = "handling", !.handlerRuns = @ + 1])]
    /\ UNCHANGED <<chVars, queryVars, binVars, srvRest>>

\* The five seconds of the request's context pass while the handler runs.
Timeout(r) ==
    /\ Req(r).pc = "handling" /\ ~Req(r).ctxDone
    /\ srv' = [srv EXCEPT !.reqs = SetReq(r, [Req(r) EXCEPT !.ctxDone = TRUE])]
    /\ UNCHANGED <<chVars, queryVars, binVars, srvRest>>

\* The handler returns (before or after the timeout) and the request is
\* logged (114-115).
HandlerReturn(r) ==
    /\ Req(r).pc = "handling"
    /\ srv' = [srv EXCEPT !.reqs = SetReq(r, [Req(r) EXCEPT
                              !.pc = "unwinding", !.status = 200])]
    /\ UNCHANGED <<chVars, queryVars, binVars, srvRest>>

\* The handler panics.
HandlerPanic(r) ==
    /\ Req(r).pc = "handling"
    /\ srv' = [srv EXCEPT !.reqs = SetReq(r, [Req(r) EXCEPT
                              !.pc = "unwinding", !.panicking = TRUE])]
    /\ UNCHANGED <<chVars, queryVars, binVars, srvRest>>

\* The deferred cancel and the deferred recovery (102-107, 111), which
\* answers 500 after a panic.
Unwind(r) ==
    /\ Req(r).pc = "unwinding"
    /\ srv' = [srv EXCEPT !.reqs = SetReq(r, [Req(r) EXCEPT
                              !.pc = "releasing",
                              !.status = IF Req(r).panicking THEN 500 ELSE @])]
    /\ UNCHANGED <<chVars, queryVars, binVars, srvRest>>

\* The deferred receive (94): a token leaves the channel.
Release(r) ==
    /\ Req(r).pc = "releasing"
    /\ srv.sem > 0
    /\ srv' = [srv EXCEPT !.sem = @ - 1,
                          !.reqs = SetReq(r, [Req(r) EXCEPT
                              !.pc = "done", !.released = @ + 1])]
    /\ UNCHANGED <<chVars, queryVars, binVars, srvRest>>

InitHTTP == InitOn({EmptyGraph})

NextHTTP ==
    \/ \E r \in Requests : Arrive(r)
    \/ \E r \in Requests : Select(r)
    \/ \E r \in Requests : Invoke(r)
    \/ \E r \in Requests : Timeout(r)
    \/ \E r \in Requests : HandlerReturn(r)
    \/ \E r \in Requests : HandlerPanic(r)
    \/ \E r \in Requests : Unwind(r)
    \/ \E r \in Requests : Release(r)

SpecHTTP == InitHTTP /\ [][NextHTTP]_vars

-----------------------------------------------------------------------------
(* The state machine of the files: preprocess runs Contract and writes the *)
(* overlay; the server reads the file at the path it is given, which may   *)
(* be that file, a damaged copy of it, or a file of another writer.        *)

\* cmd/preprocess: WriteBinary(output, chResult).
WriteStep ==
    /\ cs.pc = "done"
    /\ ~disk.written.exists
    /\ disk' = [disk EXCEPT !.written = FileWith(WriteBinary(chg))]
    /\ UNCHANGED <<chVars, queryVars, loaded, restVars>>

\* A copy of the written file cut off after k bytes.
Truncate ==
    /\ disk.written.exists /\ ~disk.other.exists
    /\ \E k \in 0..(Len(disk.written.bytes) - 1) :
          disk' = [disk EXCEPT !.other = FileWith(SubSeq(disk.written.bytes, 1, k))]
    /\ UNCHANGED <<chVars, queryVars, loaded, restVars>>

\* A copy of the written file with the bits of mask flipped in one byte.
FlipMasks == {1, 255}
FlipByte ==
    /\ disk.written.exists /\ ~disk.other.exists
    /\ \E i \in 1..Len(disk.written.bytes), mask \in FlipMasks :
          disk' = [disk EXCEPT !.other =
                      FileWith([disk.written.bytes EXCEPT ![i] = Xor8(@, mask)])]
    /\ UNCHANGED <<chVars, queryVars, loaded, restVars>>

\* The headers of other writers: another magic, another version, or counts
\* that the payload does not hold.
NotMagic == <<78, 79, 84, 95, 77, 80, 82, 79>>        \* "NOT_MPRO"
DeclaredCounts == {maxNodes, maxNodes + 1, maxEdges, maxEdges + 1, MaxUint32}
ForeignHeaders(hdr) ==
    {[hdr EXCEPT !.Magic = NotMagic]}
        \cup {[hdr EXCEPT !.Version = v] : v \in {version - 1, version + 1}}
        \cup {[hdr EXCEPT !.NumNodes = n] : n \in DeclaredCounts}
        \cup {[hdr EXCEPT !.NumOrigEdges = n] : n \in DeclaredCounts}
        \cup {[hdr EXCEPT !.NumFwdEdges = n] : n \in DeclaredCounts}
        \cup {[hdr EXCEPT !.NumBwdEdges = n] : n \in DeclaredCounts}

\* A file in the layout of WriteBinary, with its own CRC, under such a header.
ForeignFile ==
    /\ disk.written.exists /\ ~disk.other.exists
    /\ \E hdr \in ForeignHeaders(HeaderOf(chg)) :
          disk' = [disk EXCEPT !.other = FileWith(FileOf(hdr, Payload(chg)))]
    /\ UNCHANGED <<chVars, queryVars, loaded, restVars>>

\* The overlays of another writer: the written overlay with one entry of one
\* CSR array set to 0, to NumNodes or to -2 (0xFFFFFFFE as a uint32).
CSRFields ==
    {"FwdFirstOut", "FwdHead", "FwdWeight", "FwdMiddle",
     "BwdFirstOut", "BwdHead", "BwdWeight", "BwdMiddle",
     "OrigFirstOut", "OrigHead", "OrigWeight"}
OtherEntries(c) == {0, c.NumNodes, -2}
OtherOverlays(c) ==
    {[c EXCEPT ![f][i] = v] :
        f \in {f \in CSRFields : Len(c[f]) > 0}, i \in {1}, v \in OtherEntries(c)}
    \cup {[c EXCEPT ![f][Len(c[f])] = v] :
        f \in {f \in CSRFields : Len(c[f]) > 1}, v \in OtherEntries(c)}

\* A file in the layout of WriteBinary, with its own counts and CRC, that
\* holds such an overlay.
InvalidArrays ==
    /\ disk.written.exists /\ ~disk.other.exists
    /\ \E c \in OtherOverlays(chg) \ {chg} :
          disk' = [disk EXCEPT !.other = FileWith(WriteBinary(c))]
    /\ UNCHANGED <<chVars, queryVars, loaded, restVars>>

\* cmd/server: ReadBinary(graphPath); os.Open fails when no file is there.
ReadStep ==
    /\ loaded.path = "none"
    /\ \E path \in Paths :
          LET r == IF disk[path].exists THEN ReadBinary(disk[path].bytes)
                   ELSE Failed("open", "", [allocs |-> <<>>, r |-> [pos |-> 0]])
          IN loaded' = [path |-> path, err |-> r.err, errAt |-> r.errAt,
                        graph |-> r.graph, allocs |-> r.allocs, pos |-> r.pos]
    /\ UNCHANGED <<chVars, queryVars, disk, restVars>>

InitBin == InitOn(BinGraphs)

NextBin ==
    \/ ContractStep
    \/ ContractReturn
    \/ WriteStep
    \/ Truncate
    \/ FlipByte
    \/ ForeignFile
    \/ InvalidArrays
    \/ ReadStep

SpecBin == InitBin /\ [][NextBin]_vars


-----------------------------------------------------------------------------
(* WriteBinary in steps: each system call of one call may fail, and the    *)
(* disk is seen between any two of them.                                   *)

\* The Write calls of WriteBinary before the trailer, in order: the header,
\* the arrays that are not empty, and each geometry array after its length.
Writes(c) ==
    SelectSeq(<< HeaderBytes(HeaderOf(c)),
                 Bytes64(c.NodeLat), Bytes64(c.NodeLon), Bytes32(c.Rank),
                 Bytes32(c.FwdFirstOut), Bytes32(c.FwdHead),
                 Bytes32(c.FwdWeight), Bytes32(c.FwdMiddle),
                 Bytes32(c.BwdFirstOut), Bytes32(c.BwdHead),
                 Bytes32(c.BwdWeight), Bytes32(c.BwdMiddle),
                 Bytes32(c.OrigFirstOut), Bytes32(c.OrigHead), Bytes32(c.OrigWeight),
                 LE32(Len(c.GeoFirstOut)), Bytes32(c.GeoFirstOut),
                 LE32(Len(c.GeoShapeLat)), Bytes64(c.GeoShapeLat),
                 LE32(Len(c.GeoShapeLon)), Bytes64(c.GeoShapeLon) >>,
              LAMBDA b : Len(b) > 0)

\* The deferred function of WriteBinary: f.Close(); os.Remove(tmpPath).
DeferredKeepsTmp(d) == d
Deferred(d) == [d EXCEPT !.tmp = NoFile]

\* The file a run of the previous version of the tool left at path.
OldFile ==
    FileWith(FileOf([HeaderOf(chg) EXCEPT !.Version = version - 1], Payload(chg)))
EarlierRun ==
    /\ cs.pc = "done" /\ wr.pc = "idle"
    /\ ~disk.written.exists
    /\ disk' = [disk EXCEPT !.written = OldFile]
    /\ UNCHANGED <<chVars, queryVars, loaded, wr, wrRest>>

\* os.Create(path + ".tmp"): the empty file, or an error and no file.
WriteCreate ==
    /\ cs.pc = "done" /\ wr.pc = "idle"
    /\ \E ok \in BOOLEAN :
          IF ok
          THEN /\ disk' = [disk EXCEPT !.tmp = FileWith(<<>>)]
               /\ wr' = [pc |-> "writing", n |-> 1, err |-> "nil", before |-> disk.written]
          ELSE /\ disk' = disk
               /\ wr' = [pc |-> "returned", n |-> 0, err |-> "create temp file",
                         before |-> disk.written]
    /\ UNCHANGED <<chVars, queryVars, loaded, wrRest>>

\* One Write of the header or of an array; a failing Write may have written
\* a part of its bytes.
WriteArray ==
    /\ wr.pc = "writing" /\ wr.n <= Len(Writes(chg))
    /\ LET b == Writes(chg)[wr.n]
       IN \E ok \in BOOLEAN :
            IF ok
            THEN /\ disk' = [disk EXCEPT !.tmp.bytes = @ \o b]
                 /\ wr' = [wr EXCEPT !.n = @ + 1]
            ELSE /\ \E k \in {0, Len(b) - 1} :
                        disk' = [disk EXCEPT !.tmp.bytes = @ \o SubSeq(b, 1, k)]
                 /\ wr' = [wr EXCEPT !.pc = "failed", !.err = "write"]
    /\ UNCHANGED <<chVars, queryVars, loaded, wrRest>>

\* The CRC32 of all bytes written through crcWriter, written to the file.
WriteTrailer ==
    /\ wr.pc = "writing" /\ wr.n = Len(Writes(chg)) + 1
    /\ LET b == Sum32(crcWrite(NewIEEE, disk.tmp.bytes, 1, Len(disk.tmp.bytes)))
       IN \E ok \in BOOLEAN :
            IF ok
            THEN /\ disk' = [disk EXCEPT !.tmp.bytes = @ \o b]
                 /\ wr' = [wr EXCEPT !.pc = "closing"]
            ELSE /\ \E k \in {0, Len(b) - 1} :
                        disk' = [disk EXCEPT !.tmp.bytes = @ \o SubSeq(b, 1, k)]
                 /\ wr' = [wr EXCEPT !.pc = "failed", !.err = "write CRC32"]
    /\ UNCHANGED <<chVars, queryVars, loaded, wrRest>>

\* f.Close().
WriteClose ==
    /\ wr.pc = "closing"
    /\ \E ok \in BOOLEAN :
          wr' = IF ok THEN [wr EXCEPT !.pc = "renaming"]
                ELSE [wr EXCEPT !.pc = "failed", !.err = "close temp file"]
    /\ UNCHANGED <<chVars, queryVars, binVars, wrRest>>

\* os.Rename(tmpPath, path).
WriteRename ==
    /\ wr.pc = "renaming"
    /\ \E ok \in BOOLEAN :
          IF ok
          THEN /\ disk' = [disk EXCEPT !.written = disk.tmp, !.tmp = NoFile]
               /\ wr' = [wr EXCEPT !.pc = "renamed"]
          ELSE /\ disk' = disk
               /\ wr' = [wr EXCEPT !.pc = "failed", !.err = "rename"]
    /\ UNCHANGED <<chVars, queryVars, loaded, wrRest>>

\* The return of WriteBinary after os.Create succeeded: the deferred
\* function runs.
WriteReturn ==
    /\ wr.pc \in {"failed", "renamed"}
    /\ disk' = Deferred(disk)
    /\ wr' = [wr EXCEPT !.pc = "returned"]
    /\ UNCHANGED <<chVars, queryVars, loaded, wrRest>>

InitWrite == InitOn(BinGraphs)

NextWrite ==
    \/ ContractStep
    \/ ContractReturn
    \/ EarlierRun
    \/ WriteCreate
    \/ WriteArray
    \/ WriteTrailer
    \/ WriteClose
    \/ WriteRename
    \/ WriteReturn

SpecWrite == InitWrite /\ [][NextWrite]_vars


-----------------------------------------------------------------------------
(* Largest weakly connected component (pkg/graph/component.go) *)

NewUnionFind(n) ==
    [parent |-> [i \in 1..n |-> i - 1], rank |-> Fill(n, 0), size |-> Fill(n, 1)]

\* Find with path halving: the structure after the call and the root.
RECURSIVE Find(_, _)
Find(uf, x) ==
    IF At(uf.parent, x) = x THEN [uf |-> uf, root |-> x]
    ELSE LET p == At(uf.parent, At(uf.parent, x))
         IN Find([uf EXCEPT !.parent = Put(@, x, p)], p)

\* A union that counts the absorbed set as one element.
UnionCountsOne(uf, x, y) ==
    LET fx == Find(uf, x)
        fy == Find(fx.uf, y)
        u0 == fy.uf
        swap == At(u0.rank, fx.root) < At(u0.rank, fy.root)
        rx == IF swap THEN fy.root ELSE fx.root
        ry == IF swap THEN fx.root ELSE fy.root
    IN IF fx.root = fy.root THEN [uf |-> u0, ok |-> FALSE]
       ELSE [uf |-> [u0 EXCEPT
                       !.parent = Put(@, ry, rx),
                       !.size = Put(@, rx, Add32(At(u0.size, rx), 1)),
                       !.rank = IF At(u0.rank, rx) = At(u0.rank, ry)
                                    THEN Put(@, rx, (At(u0.rank, rx) + 1) % 256)
                                    ELSE @],
             ok |-> TRUE]
\* A union that leaves the sizes alone.
UnionKeepsSize(uf, x, y) ==
    LET fx == Find(uf, x)
        fy == Find(fx.uf, y)
        swap == At(fy.uf.rank, fx.root) < At(fy.uf.rank, fy.root)
        rx == IF swap THEN fy.root ELSE fx.root
        ry == IF swap THEN fx.root ELSE fy.root
    IN IF fx.root = fy.root THEN [uf |-> fy.uf, ok |-> FALSE]
       ELSE [uf |-> [fy.uf EXCEPT !.parent = Put(@, ry, rx)], ok |-> TRUE]
\* Union by rank; rank is a byte.
Union(uf, x, y) ==
    LET fx == Find(uf, x)
        fy == Find(fx.uf, y)
        u0 == fy.uf
        swap == At(u0.rank, fx.root) < At(u0.rank, fy.root)
        rx == IF swap THEN fy.root ELSE fx.root
        ry == IF swap THEN fx.root ELSE fy.root
    IN IF fx.root = fy.root THEN [uf |-> u0, ok |-> FALSE]
       ELSE [uf |-> [u0 EXCEPT
                       !.parent = Put(@, ry, rx),
                       !.size = Put(@, rx, Add32(At(u0.size, rx), At(u0.size, ry))),
                       !.rank = IF At(u0.rank, rx) = At(u0.rank, ry)
                                    THEN Put(@, rx, (At(u0.rank, rx) + 1) % 256)
                                    ELSE @],
             ok |-> TRUE]

\* LargestComponent: the unions over all edges in CSR order, the root of
\* the largest size (the first one found on a tie), and its nodes in index
\* order; nil for a graph without nodes.
LargestComponent(gr) ==
    IF gr.NumNodes = 0 THEN <<>>
    ELSE LET n == gr.NumNodes
             united == FoldRange(LAMBDA uf, e : Union(uf, Source(gr, e), At(gr.Head, e)).uf,
                                 NewUnionFind(n), 0, Len(gr.Head) - 1)
             best == FoldRange(LAMBDA st, i :
                         LET f == Find(st.uf, i)
                         IN IF Lt32(st.bestSize, At(f.uf.size, f.root))
                                THEN [uf |-> f.uf, bestRoot |-> f.root,
                                      bestSize |-> At(f.uf.size, f.root)]
                            ELSE [st EXCEPT !.uf = f.uf],
                         [uf |-> united, bestRoot |-> 0, bestSize |-> 0], 0, n - 1)
             coll == FoldRange(LAMBDA st, i :
                         LET f == Find(st.uf, i)
                         IN [uf |-> f.uf,
                             nodes |-> IF f.root = best.bestRoot
                                           THEN Append(st.nodes, i) ELSE st.nodes],
                         [uf |-> best.uf, nodes |-> <<>>], 0, n - 1)
         IN coll.nodes

\* oldToNew of FilterToComponent: a later entry of nodes replaces an earlier
\* one for the same node.
InNodes(nodes, old) == \E k \in 1..Len(nodes) : nodes[k] = old
oldToNew(nodes, old) ==
    (CHOOSE k \in 1..Len(nodes) :
        nodes[k] = old /\ \A j \in (k + 1)..Len(nodes) : nodes[j] # old) - 1

\* The polyline of edge e, copied when it has points.
ShapeOf(gr, shape, e) ==
    IF gr.GeoFirstOut # <<>> /\ Lt32(At(gr.GeoFirstOut, e), At(gr.GeoFirstOut, e + 1))
        THEN SubSeq(shape, At(gr.GeoFirstOut, e) + 1, At(gr.GeoFirstOut, e + 1))
        ELSE <<>>

\* The edges FilterToComponent collects: for each node of nodes in order,
\* its edges in CSR order whose head is in nodes.
ComponentEdges(gr, nodes) ==
    Concat([k \in 1..Len(nodes) |->
        LET es == SelectSeq([j \in 1..Cardinality(EdgesFrom(gr, nodes[k])) |->
                                At(gr.FirstOut, nodes[k]) + j - 1],
                            LAMBDA e : InNodes(nodes, At(gr.Head, e)))
        IN [j \in 1..Len(es) |->
              [from |-> oldToNew(nodes, nodes[k]), to |-> oldToNew(nodes, At(gr.Head, es[j])),
               weight |-> At(gr.Weight, es[j]),
               shapeLats |-> ShapeOf(gr, gr.GeoShapeLat, es[j]),
               shapeLons |-> ShapeOf(gr, gr.GeoShapeLon, es[j])]]])

\* The placement of one collected edge at pos[e.from].
placeEdge(st, e) ==
    LET idx == At(st.pos, e.from)
    IN [pos |-> Put(st.pos, e.from, idx + 1),
        head |-> Put(st.head, idx, e.to),
        weight |-> Put(st.weight, idx, e.weight),
        geoFirstOut |-> Put(st.geoFirstOut, idx, Len(st.geoShapeLat)),
        geoShapeLat |-> st.geoShapeLat \o e.shapeLats,
        geoShapeLon |-> st.geoShapeLon \o e.shapeLons]

FilterToComponent(gr, nodes) ==
    IF Len(nodes) = 0 THEN EmptyGraph
    ELSE LET numNodes == Len(nodes)
             edges == ComponentEdges(gr, nodes)
             numEdges == Len(edges)
             firstOut == [i \in 1..(numNodes + 1) |->
                            Len(SelectSeq(edges, LAMBDA e : e.from < i - 1))]
             placed == FoldRange(LAMBDA st, k : placeEdge(st, edges[k]),
                           [pos |-> SubSeq(firstOut, 1, numNodes),
                            head |-> Fill(numEdges, 0), weight |-> Fill(numEdges, 0),
                            geoFirstOut |-> Fill(numEdges + 1, 0),
                            geoShapeLat |-> <<>>, geoShapeLon |-> <<>>],
                           1, numEdges)
         IN [NumNodes |-> numNodes,
             NumEdges |-> numEdges,
             FirstOut |-> firstOut,
             Head     |-> placed.head,
             Weight   |-> placed.weight,
             NodeLat  |-> [k \in 1..numNodes |-> At(gr.NodeLat, nodes[k])],
             NodeLon  |-> [k \in 1..numNodes |-> At(gr.NodeLon, nodes[k])],
             GeoFirstOut |-> Put(placed.geoFirstOut, numEdges, Len(placed.geoShapeLat)),
             GeoShapeLat |-> placed.geoShapeLat,
             GeoShapeLon |-> placed.geoShapeLon]

\* TestFilterToComponent: the one-way triangle 0 -> 1 -> 2 -> 0 and the
\* separate pair 3 -> 4.
TrianglePair ==
    Grid(5, << <<0, 1, 100>>, <<1, 2, 200>>, <<2, 0, 300>>, <<3, 4, 400>> >>)
\* TestLargestComponent: the path 0 - 1 - 2 and the pair 3 - 4, two-way.
PathPair ==
    Grid(5, << <<0, 1, 100>>, <<1, 0, 100>>, <<1, 2, 200>>, <<2, 1, 200>>,
               <<3, 4, 300>>, <<4, 3, 300>> >>)
\* A pair before a triangle, every edge with its own number of shape points.
PairTriangle ==
    [Grid(5, << <<0, 1, 7>>, <<1, 0, 7>>, <<2, 3, 1>>, <<3, 4, 2>>, <<4, 2, 3>>,
                <<4, 3, 2>> >>)
        EXCEPT !.GeoFirstOut = <<0, 1, 3, 3, 4, 6, 6>>,
               !.GeoShapeLat = <<11, 12, 13, 14, 15, 16>>,
               !.GeoShapeLon = <<21, 22, 23, 24, 25, 26>>]
\* Two components of the same size.
TwoPairs == Grid(4, << <<0, 1, 1>>, <<3, 2, 1>> >>)
CompGraphs ==
    Family \cup {EmptyGraph, OneNode, BendRoad, Ladder, Spur,
                 TrianglePair, PathPair, PairTriangle, TwoPairs}

\* cmd/preprocess: LargestComponent(g).
ComponentStep ==
    /\ comp.pc = "start"
    /\ comp' = [comp EXCEPT !.pc = "component", !.nodes = LargestComponent(g)]
    /\ UNCHANGED <<chVars, queryVars, binVars, compRest>>

\* cmd/preprocess: FilterToComponent(g, componentNodes).
FilterStep ==
    /\ comp.pc = "component"
    /\ comp' = [comp EXCEPT !.pc = "filtered",
                            !.filtered = FilterToComponent(g, comp.nodes)]
    /\ UNCHANGED <<chVars, queryVars, binVars, compRest>>

InitComp == InitOn(CompGraphs)

NextComp ==
    \/ ComponentStep
    \/ FilterStep

SpecComp == InitComp /\ [][NextComp]_vars

\* cmd/preprocess from the built graph to the file, and the server's read:
\* the component stage, Contract, WriteBinary, ReadBinary.
PipeGraphs == BinGraphs \cup {TrianglePair, PathPair, PairTriangle, TwoPairs}
InitPipe == InitOn(PipeGraphs)

NextPipe ==
    \/ ComponentStep
    \/ FilterStep
    \/ ContractStep
    \/ ContractReturn
    \/ WriteStep
    \/ ReadStep

SpecPipe == InitPipe /\ [][NextPipe]_vars

\* A UnionFind over UFSize elements under any calls of Union and Find.
\* dsu.sets[i + 1] is the set element i ought to be in: the sets are merged
\* whenever a Union is called on two of them.
UFSize == 5
Elems == 0..(UFSize - 1)

UnionStep ==
    /\ dsu.last.op # "none"
    /\ \E x \in Elems, y \in Elems :
          dsu' = [uf   |-> Union(dsu.uf, x, y).uf,
                  sets |-> [i \in 1..UFSize |->
                              IF dsu.sets[i] \in {At(dsu.sets, x), At(dsu.sets, y)}
                                  THEN At(dsu.sets, x) \cup At(dsu.sets, y)
                                  ELSE dsu.sets[i]],
                  last |-> [op |-> "Union", x |-> x, y |-> y,
                            ok |-> Union(dsu.uf, x, y).ok, root |-> 0]]
    /\ UNCHANGED <<chVars, queryVars, binVars, dsuRest>>

FindStep ==
    /\ dsu.last.op # "none"
    /\ \E x \in Elems :
          dsu' = [dsu EXCEPT !.uf = Find(dsu.uf, x).uf,
                             !.last = [op |-> "Find", x |-> x, y |-> x, ok |-> FALSE,
                                       root |-> Find(dsu.uf, x).root]]
    /\ UNCHANGED <<chVars, queryVars, binVars, dsuRest>>

InitUF ==
    /\ g = EmptyGraph
    /\ cs = ContractStart(g)
    /\ bld = NoBuild
    /\ dsu = [uf |-> NewUnionFind(UFSize), sets |-> [i \in 1..UFSize |-> {i - 1}],
              last |-> [NoUnion EXCEPT !.op = "New"]]
    /\ unp = NoUnpack
    /\ InitRest

NextUF ==
    \/ UnionStep
    \/ FindStep

SpecUF == InitUF /\ [][NextUF]_vars

\* unpackOverlayPath up to its first loop test (unpack 12-25).
UnpackEnter ==
    /\ unp.pc = "called"
    /\ unp' = IF Len(unp.overlayNodes) < 2
                  THEN [unp EXCEPT !.pc = "returned", !.result = unp.overlayNodes]
                  ELSE [unp EXCEPT !.pc = "hops", !.result = <<unp.overlayNodes[1]>>]
    /\ UNCHANGED <<chVars, queryVars, binVars, unpRest>>

\* The outer loop moves to its next hop, or the function returns (unpack 27-28, 55).
UnpackHop ==
    /\ unp.pc = "hops" /\ unp.stack = <<>>
    /\ unp' = IF unp.i < Len(unp.overlayNodes) - 1
                  THEN [unp EXCEPT !.i = @ + 1,
                                   !.stack = <<[from  |-> At(unp.overlayNodes, unp.i),
                                                to    |-> At(unp.overlayNodes, unp.i + 1),
                                                depth |-> 0]>>]
                  ELSE [unp EXCEPT !.pc = "returned"]
    /\ UNCHANGED <<chVars, queryVars, binVars, unpRest>>

\* One pass of the inner loop.
UnpackPass ==
    /\ unp.pc = "hops" /\ unp.stack # <<>>
    /\ unp' = [unp EXCEPT
                 !.stack = unpackPass(unp.c, [stack |-> unp.stack, result |-> unp.result,
                                              skipped |-> unp.skipped]).stack,
                 !.result = unpackPass(unp.c, [stack |-> unp.stack, result |-> unp.result,
                                               skipped |-> unp.skipped]).result,
                 !.skipped = unpackPass(unp.c, [stack |-> unp.stack, result |-> unp.result,
                                                skipped |-> unp.skipped]).skipped]
    /\ UNCHANGED <<chVars, queryVars, binVars, unpRest>>

\* The overlay of the path 0 -> 1 -> .. -> n (weights 1) contracted from its
\* far end: node n - 1 first, node 1 last, then 0 and n.  The shortcut
\* k -> n goes through k + 1; the one from 0 is nested n - 1 deep.
NestOverlay(n) ==
    [EmptyCHGraph EXCEPT
        !.NumNodes = n + 1,
        !.Rank = [i \in 1..(n + 1) |->
                    IF i = 1 THEN n - 1 ELSE IF i = n + 1 THEN n ELSE n - i],
        !.FwdFirstOut = [i \in 1..(n + 2) |-> IF i - 1 < n THEN i - 1 ELSE n],
        !.FwdHead = [k \in 1..n |-> n],
        !.FwdWeight = [k \in 1..n |-> n - k + 1],
        !.FwdMiddle = [k \in 1..n |-> IF k < n THEN k ELSE -1],
        !.BwdFirstOut = [i \in 1..(n + 2) |->
                           IF i < 3 THEN 0 ELSE IF i - 2 < n - 1 THEN i - 2 ELSE n - 1],
        !.BwdHead = [k \in 1..(n - 1) |-> k - 1],
        !.BwdWeight = [k \in 1..(n - 1) |-> 1],
        !.BwdMiddle = [k \in 1..(n - 1) |-> -1]]

\* An overlay that cannot come from Contract: the edge 0 -> 1 names node 0
\* as its middle, so that its second half is the edge itself.
CyclicOverlay ==
    [EmptyCHGraph EXCEPT
        !.NumNodes = 2, !.Rank = <<0, 1>>,
        !.FwdFirstOut = <<0, 1, 1>>, !.FwdHead = <<1>>,
        !.FwdWeight = <<1>>, !.FwdMiddle = <<0>>,
        !.BwdFirstOut = <<0, 0, 0>>]

\* The calls of the model: the deepest nest that is unpacked whole and the
\* next deeper one, forwards and with a hop that has no edge; the cyclic
\* overlay and the overlay of the ladder with every node sequence of at
\* most MaxHopNodes nodes.
MaxHopNodes == 3
NodeSeqs(n) == UNION {[1..k -> 0..(n - 1)] : k \in 0..MaxHopNodes}
UnpackCalls ==
    {[c |-> NestOverlay(maxUnpackDepth + 1), overlayNodes |-> sq] :
        sq \in {<<0, maxUnpackDepth + 1>>, <<1, maxUnpackDepth + 1, 0>>}}
    \cup {[c |-> NestOverlay(maxUnpackDepth + 2), overlayNodes |-> sq] :
        sq \in {<<0, maxUnpackDepth + 2>>, <<1, maxUnpackDepth + 2>>}}
    \cup {[c |-> CyclicOverlay, overlayNodes |-> sq] : sq \in NodeSeqs(2)}
    \cup {[c |-> Contract(Ladder), overlayNodes |-> sq] : sq \in NodeSeqs(6)}

InitUnpack ==
    /\ g = EmptyGraph
    /\ cs = ContractStart(g)
    /\ bld = NoBuild
    /\ dsu = NoUnionFind
    /\ unp \in {[NoUnpack EXCEPT !.pc = "called", !.c = call.c,
                                 !.overlayNodes = call.overlayNodes] :
                   call \in UnpackCalls}
    /\ InitRest

NextUnpack ==
    \/ UnpackEnter
    \/ UnpackHop
    \/ UnpackPass

\* The call runs on one goroutine: it takes its next step while it has one.
SpecUnpack == InitUnpack /\ [][NextUnpack]_vars /\ WF_vars(NextUnpack)

\* The parse results: every list of at most MaxRaw edges over three node ids
\* with weights 0..MaxW, self-loops and repeated edges included, and the
\* star of TestBuildCSRInvariants.
MaxRaw == 2
RawIDs == {10, 20, 30}
RawEdges == [FromNodeID : RawIDs, ToNodeID : RawIDs, Weight : 0..MaxW]
RawEdge(from, to, weight) == [FromNodeID |-> from, ToNodeID |-> to, Weight |-> weight]
RawStar ==
    <<RawEdge(10, 20, 100), RawEdge(10, 30, 200), RawEdge(10, 40, 300),
      RawEdge(20, 10, 100)>>
RawLists == UNION {[1..n -> RawEdges] : n \in 0..MaxRaw} \cup {RawStar}

InitBuild ==
    /\ bld \in {[pc |-> "parsed", edges |-> r] : r \in RawLists}
    /\ g = EmptyGraph
    /\ cs = Done
    /\ dsu = NoUnionFind
    /\ unp = NoUnpack
    /\ InitRest

\* cmd/preprocess from the parse result: Build, the component stage on what
\* Build returned, Contract on the filtered graph.
NextBuild ==
    \/ BuildStep
    \/ (bld.pc = "built" /\ ComponentStep)
    \/ (bld.pc = "built" /\ FilterStep)
    \/ ContractCall
    \/ ContractStep
    \/ ContractReturn

SpecBuild == InitBuild /\ [][NextBuild]_vars


-----------------------------------------------------------------------------
(* Properties of queries *)

HasEdge(gr, u, v) == \E e \in EdgesFrom(gr, u) : At(gr.Head, e) = v
EdgeWeights(gr, u, v) == {At(gr.Weight, e) : e \in {e \in EdgesFrom(gr, u) : At(gr.Head, e) = v}}
MinOf(S) == CHOOSE x \in S : \A y \in S : x <= y
SnapWeight(gr, snap) == At(gr.Weight, snap.EdgeIdx)
RouteDone == out.kind = "route"
RouteOk == out.kind = "route" /\ out.err = "nil"

\* C1: a node-to-node query on the overlay of Contract reports the distance
\* of plain Dijkstra on the original graph, and MaxUint32 without a meeting
\* node when the target cannot be reached.
C1_QueryEqualsDijkstra ==
    out.kind = "test" =>
        /\ out.mu = plainDijkstra(g, out.s, out.t)
        /\ (out.mu = MaxUint32 => out.meetNode = noNode)

\* C2: the forward search is seeded at the source u of the start's edge only
\* if the reverse edge v -> u exists, the backward search at the head v of the
\* end's edge only if v -> u exists; a returned route does not begin by
\* walking the start's one-way edge back to u.
C2_SeedsRespectDirection ==
    /\ (run.kind = "route" /\ run.pc = "searching" /\ run.iterations = 0) =>
          /\ (~HasEdge(g, run.startSnap.NodeV, run.startSnap.NodeU)
                 => At(qs.DistFwd, run.startSnap.NodeU) = MaxUint32)
          /\ (~HasEdge(g, run.endSnap.NodeV, run.endSnap.NodeU)
                 => At(qs.DistBwd, run.endSnap.NodeV) = MaxUint32)
    /\ (RouteOk /\ out.startSnap.Ratio > 0
          /\ ~HasEdge(g, out.startSnap.NodeV, out.startSnap.NodeU))
          => out.origNodes[1] # out.startSnap.NodeU

\* C3: start and end on the same two-way edge of weight W with ratios
\* rs <= re: Route returns the distance (re - rs) * W (here to within the
\* rounding of one seed distance).
C3_SameEdgeDistance ==
    (/\ RouteDone /\ ~out.sawCancel
     /\ out.startSnap.EdgeIdx = out.endSnap.EdgeIdx
     /\ HasEdge(g, out.startSnap.NodeV, out.startSnap.NodeU)
     /\ out.startSnap.Ratio <= out.endSnap.Ratio)
    => LET exact == (out.endSnap.Ratio - out.startSnap.Ratio) * SnapWeight(g, out.startSnap)
       IN /\ out.err = "nil"
          /\ out.mu * RatioDen - exact <= RatioDen
          /\ exact - out.mu * RatioDen <= RatioDen

\* C4: when the search has returned because it saw the cancellation, Route
\* returns a cancellation error: neither a RouteResult nor ErrNoRoute.
C4_CancelSurfaces ==
    (RouteDone /\ out.sawCancel) => out.err \notin {"nil", "ErrNoRoute"}

\* The distance at which seedForward / seedBackward seed a node of the edge.
SeedDist(gr, snap, node) ==
    IF node = snap.NodeU THEN RoundMul(SnapWeight(gr, snap), snap.Ratio)
    ELSE RoundMul(SnapWeight(gr, snap), RatioDen - snap.Ratio)
RECURSIVE PathWeight(_, _)
PathWeight(gr, nodes) ==
    IF Len(nodes) < 2 THEN 0
    ELSE MinOf(EdgeWeights(gr, nodes[1], nodes[2])) + PathWeight(gr, Tail(nodes))

\* C5: the unpacked node sequence of a finished query starts at a start seed,
\* ends at an end seed, steps along original edges only, and its edge weights
\* plus the two seed distances add up to mu.
C5_UnpackedPathIsRoute ==
    (RouteOk /\ ~out.sawCancel) =>
        LET p == out.origNodes
        IN /\ Len(p) >= 1
           /\ p[1] \in {out.startSnap.NodeU, out.startSnap.NodeV}
           /\ p[Len(p)] \in {out.endSnap.NodeU, out.endSnap.NodeV}
           /\ \A i \in 1..(Len(p) - 1) : HasEdge(g, p[i], p[i + 1])
           /\ (\A i \in 1..(Len(p) - 1) : HasEdge(g, p[i], p[i + 1])) =>
                 SeedDist(g, out.startSnap, p[1]) + PathWeight(g, p)
                     + SeedDist(g, out.endSnap, p[Len(p)]) = out.mu

\* The projection A + t (B - A) of PointToSegmentDist, times RatioDen.
Projection(gr, snap) ==
    LET a == NodeLatLng(gr, snap.NodeU)
        b == NodeLatLng(gr, snap.NodeV)
    IN <<RatioDen * a[1] + snap.Ratio * (b[1] - a[1]),
         RatioDen * a[2] + snap.Ratio * (b[2] - a[2])>>
Scaled(pt) == <<RatioDen * pt[1], RatioDen * pt[2]>>

\* C6: the polyline of a returned route begins at the snapped start point
\* and ends at the snapped end point.
C6_PolylineEndsAtSnaps ==
    RouteOk =>
        /\ Len(out.Geometry) >= 1
        /\ Scaled(out.Geometry[1]) = Projection(g, out.startSnap)
        /\ Scaled(out.Geometry[Len(out.Geometry)]) = Projection(g, out.endSnap)


-----------------------------------------------------------------------------
(* Properties of the codec *)

\* ReadBinary has returned from a file it could open at path.
HasRead(path) == loaded.path = path /\ loaded.err # "open"
Rejected == loaded.err # "nil" /\ loaded.graph = <<>>

\* C7: reading the file WriteBinary wrote for the overlay of Contract
\* succeeds and returns that overlay, every array equal, with Rank nil.
C7_RoundTrip ==
    HasRead("written") =>
        /\ loaded.err = "nil"
        /\ loaded.graph = <<[chg EXCEPT !.Rank = <<>>]>>

OneByteOff(bad, good) ==
    /\ Len(bad) = Len(good)
    /\ Cardinality({i \in 1..Len(good) : bad[i] # good[i]}) = 1
CutShort(bad, good) == Len(bad) < Len(good) /\ bad = SubSeq(good, 1, Len(bad))
OtherMagic(bad) == Len(bad) >= 8 /\ SubSeq(bad, 1, 8) # magicBytes
OtherVersion(bad) == Len(bad) >= 12 /\ WordAt(bad, 8) # version

\* C8: ReadBinary returns an error and no graph for a file with another
\* magic, with another version, for a written file cut short at any offset,
\* and for a written file with one byte changed.
C8_DamagedFileRejected ==
    (/\ HasRead("other")
     /\ \/ OtherMagic(disk.other.bytes)
        \/ OtherVersion(disk.other.bytes)
        \/ CutShort(disk.other.bytes, disk.written.bytes)
        \/ OneByteOff(disk.other.bytes, disk.written.bytes))
    => Rejected

C8_Witness ==
    /\ HasRead("other")
    /\ OneByteOff(disk.other.bytes, disk.written.bytes)
    /\ SubSeq(disk.other.bytes, 1, headerSize) = SubSeq(disk.written.bytes, 1, headerSize)
    /\ loaded.err = "CRC32 mismatch"

\* The header of the file at path declares a count above its cap.
OverCap(hdr) ==
    \/ Lt32(maxNodes, hdr.NumNodes)
    \/ Lt32(maxEdges, hdr.NumOrigEdges)
    \/ Lt32(maxEdges, hdr.NumFwdEdges)
    \/ Lt32(maxEdges, hdr.NumBwdEdges)
HeaderAt(path) == ParseHeader(disk[path].bytes)
HasHeader(path) == Len(disk[path].bytes) >= headerSize

\* C9: a file whose header declares more than maxNodes nodes or more than
\* maxEdges original, forward or backward edges is rejected with no slice
\* made and no byte read beyond the header.
C9_CapsBeforeArrays ==
    \A path \in Paths :
        (HasRead(path) /\ HasHeader(path) /\ OverCap(HeaderAt(path)))
        => /\ Rejected
           /\ loaded.allocs = <<>>
           /\ loaded.pos = headerSize

\* The least size, in 4-byte words, of a file with the counts of hdr: the
\* header, the arrays, three length prefixes and the trailer.
MinWords(hdr) ==
    8 + 8 * hdr.NumNodes + 3
      + 3 * hdr.NumFwdEdges + 3 * hdr.NumBwdEdges + 2 * hdr.NumOrigEdges + 3 + 1
GeoFields == {"GeoFirstOut", "GeoShapeLat", "GeoShapeLon"}

\* C10: a file shorter than its header's counts (all within the caps)
\* require is rejected, with no slice sized from the header that is larger
\* than the file.
C10_SizeBeforeArrays ==
    \A path \in Paths :
        (/\ HasRead(path) /\ HasHeader(path)
         /\ ~OverCap(HeaderAt(path))
         /\ MinWords(HeaderAt(path)) > Len(disk[path].bytes) \div 4)
        => /\ Rejected
           /\ \A k \in 1..Len(loaded.allocs) :
                 loaded.allocs[k].field \notin GeoFields =>
                     /\ loaded.allocs[k].n >= 0
                     /\ loaded.allocs[k].n <= Len(disk[path].bytes) \div loaded.allocs[k].size


\* The invariants of one CSR with n nodes: first_out has n+1 entries, is
\* monotone and ends with the number of edges; every head is < n; every
\* weight is > 0.
CSRInvariant(firstOut, head, weight, n) ==
    /\ Len(firstOut) = n + 1
    /\ \A i \in 1..n : Le32(At(firstOut, i - 1), At(firstOut, i))
    /\ At(firstOut, n) = Len(head)
    /\ Len(weight) = Len(head)
    /\ \A i \in 1..Len(head) : Lt32(head[i], n)
    /\ \A i \in 1..Len(weight) : weight[i] # 0
MiddleInvariant(middle, n) ==
    \A i \in 1..Len(middle) : middle[i] = -1 \/ (middle[i] >= 0 /\ middle[i] < n)

\* C11: ReadBinary rejects every file in which the forward overlay, the
\* backward overlay or the original CSR breaks an invariant; that is, every
\* graph it returns satisfies the invariants of all three, with every middle
\* -1 or a node.
C11_InvalidCSRRejected ==
    \A path \in Paths :
        (HasRead(path) /\ loaded.err = "nil") =>
            LET G == loaded.graph[1]
            IN /\ CSRInvariant(G.FwdFirstOut, G.FwdHead, G.FwdWeight, G.NumNodes)
               /\ CSRInvariant(G.BwdFirstOut, G.BwdHead, G.BwdWeight, G.NumNodes)
               /\ CSRInvariant(G.OrigFirstOut, G.OrigHead, G.OrigWeight, G.NumNodes)
               /\ MiddleInvariant(G.FwdMiddle, G.NumNodes)
               /\ MiddleInvariant(G.BwdMiddle, G.NumNodes)


\* C12: during one WriteBinary call the file at path is what it was before
\* the call or the complete new file, and it changes only by the rename;
\* when the call has returned an error, path is as before and path.tmp is
\* gone; when it has returned nil, path holds the complete new file.
NewFile == FileWith(WriteBinary(chg))
C12_AtomicWrite ==
    wr.pc # "idle" =>
        /\ disk.written \in {wr.before, NewFile}
        /\ wr.pc \notin {"renamed", "returned"} => disk.written = wr.before
        /\ (wr.pc = "returned" /\ wr.err # "nil") =>
                disk.written = wr.before /\ ~disk.tmp.exists
        /\ (wr.pc = "returned" /\ wr.err = "nil") =>
                disk.written = NewFile /\ ~disk.tmp.exists

\* A call that failed in a Write after part of the file was in path.tmp,
\* with an older file at path.
C12_Witness ==
    /\ wr.pc = "returned" /\ wr.err = "write" /\ wr.n > 2
    /\ wr.before.exists
    /\ disk.written = wr.before /\ disk.written # NewFile
    /\ ~disk.tmp.exists


-----------------------------------------------------------------------------
(* Properties of the contraction *)

Returned == cs.pc = "done"
\* Contract stopped at the shortcut limit: nodes were left to the core.
ValveHit == Returned /\ g = LaneCycle

\* C13: after Contract has returned, Rank has one entry per node and is a
\* bijection from the nodes onto 0..N-1, also when the shortcut limit
\* stopped the contraction.
C13_RankBijection ==
    Returned =>
        /\ Len(chg.Rank) = g.NumNodes
        /\ {chg.Rank[i] : i \in 1..Len(chg.Rank)} = 0..(g.NumNodes - 1)

\* Contract has returned after the shortcut limit stopped it with every node
\* in the core.
C13_Witness == ValveHit /\ chg.Rank = <<0, 1, 2>>


\* The edges of an overlay in the direction of travel: an entry of the
\* forward CSR under u with head v is u -> v, an entry of the backward CSR
\* under u with head v is v -> u.
OverlayEdges(c) ==
    UNION {
        {[from |-> u, to |-> At(c.FwdHead, k), weight |-> At(c.FwdWeight, k),
          middle |-> At(c.FwdMiddle, k)] :
            k \in At(c.FwdFirstOut, u)..(At(c.FwdFirstOut, u + 1) - 1)}
        \cup
        {[from |-> At(c.BwdHead, k), to |-> u, weight |-> At(c.BwdWeight, k),
          middle |-> At(c.BwdMiddle, k)] :
            k \in At(c.BwdFirstOut, u)..(At(c.BwdFirstOut, u + 1) - 1)} :
        u \in 0..(c.NumNodes - 1)}
Shortcuts(c) == {e \in OverlayEdges(c) : e.middle >= 0}
Halves(c, e) ==
    {<<a, b>> \in OverlayEdges(c) \X OverlayEdges(c) :
        /\ a.from = e.from /\ a.to = e.middle
        /\ b.from = e.middle /\ b.to = e.to
        /\ Add32(a.weight, b.weight) = e.weight}

-----------------------------------------------------------------------------
(* Properties of the largest-component stage *)

\* The nodes joined to those of S by edges taken in either direction.
RECURSIVE Closure(_, _)
Closure(gr, S) ==
    LET more == {v \in Nodes(gr) : \E u \in S : HasEdge(gr, u, v) \/ HasEdge(gr, v, u)}
    IN IF more \subseteq S THEN S ELSE Closure(gr, S \cup more)
WeakComponent(gr, u) == Closure(gr, {u})

\* The edges of a graph in CSR order, each with its polyline.
EdgeList(gr) ==
    [k \in 1..Len(gr.Head) |->
        [from |-> Source(gr, k - 1), to |-> gr.Head[k], weight |-> gr.Weight[k],
         shapeLats |-> SubSeq(gr.GeoShapeLat, gr.GeoFirstOut[k] + 1, gr.GeoFirstOut[k + 1]),
         shapeLons |-> SubSeq(gr.GeoShapeLon, gr.GeoFirstOut[k] + 1, gr.GeoFirstOut[k + 1])]]
\* The edges of gr with both ends in S, the nodes of S renumbered in order.
Renumbered(S, u) == Cardinality({v \in S : v < u})
EdgesWithin(gr, S) ==
    LET kept == SelectSeq(EdgeList(gr), LAMBDA e : e.from \in S /\ e.to \in S)
    IN [k \in 1..Len(kept) |->
          [kept[k] EXCEPT !.from = Renumbered(S, @), !.to = Renumbered(S, @)]]
RECURSIVE SumSeq(_)
SumSeq(sq) == IF sq = <<>> THEN 0 ELSE Head(sq) + SumSeq(Tail(sq))
Filtered == comp.pc = "filtered" /\ g.NumNodes > 0

\* C15: LargestComponent returns, each node once, the nodes of a weakly
\* connected component that no other component exceeds in size, and
\* FilterToComponent yields the graph on these nodes renumbered 0..k-1
\* with the coordinates of each node and exactly the edges of the original
\* graph within the set, each with its weight and its polyline; the
\* triangle with a separate pair gives 3 nodes, 3 edges and weight 600.
C15_LargestComponent ==
    Filtered =>
        LET S == {comp.nodes[k] : k \in 1..Len(comp.nodes)}
            f == comp.filtered
        IN /\ Len(comp.nodes) = Cardinality(S)
           /\ \E u \in Nodes(g) : S = WeakComponent(g, u)
           /\ \A v \in Nodes(g) : Cardinality(WeakComponent(g, v)) <= Cardinality(S)
           /\ f.NumNodes = Cardinality(S)
           /\ Len(f.NodeLat) = f.NumNodes /\ Len(f.NodeLon) = f.NumNodes
           /\ \A u \in S : /\ At(f.NodeLat, Renumbered(S, u)) = At(g.NodeLat, u)
                            /\ At(f.NodeLon, Renumbered(S, u)) = At(g.NodeLon, u)
           /\ f.NumEdges = Len(f.Head)
           /\ Len(f.FirstOut) = f.NumNodes + 1
           /\ Len(f.GeoFirstOut) = f.NumEdges + 1
           /\ EdgeList(f) = EdgesWithin(g, S)
           /\ g = TrianglePair =>
                 f.NumNodes = 3 /\ f.NumEdges = 3 /\ SumSeq(f.Weight) = 600

\* The triangle that follows a pair, filtered with its polylines.
C15_Witness ==
    /\ Filtered /\ g = PairTriangle
    /\ comp.nodes = <<2, 3, 4>>
    /\ comp.filtered.GeoShapeLat = <<14, 15, 16>>


\* C16: for the graph Build returns on zero edges (N = 0, M = 0) every stage
\* returns without error: LargestComponent no node, FilterToComponent the
\* empty graph, Contract the empty overlay, and ReadBinary of the file
\* WriteBinary wrote for that overlay succeeds with the empty overlay.
C16_EmptyTolerated ==
    (g.NumNodes = 0 /\ g.NumEdges = 0) =>
        /\ comp.pc # "start" => comp.nodes = <<>>
        /\ comp.pc = "filtered" => comp.filtered = EmptyGraph
        /\ Returned => chg = EmptyCHGraph
        /\ HasRead("written") =>
              loaded.err = "nil" /\ loaded.graph = <<EmptyCHGraph>>

-----------------------------------------------------------------------------
(* Properties of concurrent queries *)

\* runCHDijkstra to its return, with a context that is never cancelled.
RECURSIVE SearchAlone(_, _)
SearchAlone(c, st) ==
    IF st.returned THEN st ELSE SearchAlone(c, dijkstraIter(c, st, FALSE))

\* What Route returns for two snaps when no other call runs: the search on a
\* QueryState nobody else has used.
RouteAlone(c, gr, startSnap, endSnap) ==
    LET q0 == seedBackward(seedForward(NewQueryState(c.NumNodes), gr, startSnap),
                           gr, endSnap)
        st == SearchAlone(c, [q |-> q0, mu |-> MaxUint32, meetNode |-> noNode,
                              iterations |-> 0, returned |-> FALSE])
    IN RouteTail(c, gr, st.q, st.mu, st.meetNode)

InFlight(c) == Call(c).qs # 0

\* No QueryState is held by two callers, and none that a caller holds is in
\* the pool.
PoolExclusive ==
    /\ \A c \in Callers, d \in Callers : InFlight(c) /\ c # d => Call(c).qs # Call(d).qs
    /\ \A c \in Callers : InFlight(c) => Call(c).qs \notin eng.pool

\* Every call that has returned has the result of the same call run alone.
SameAsAlone ==
    \A c \in Callers :
        Call(c).pc = "returned" =>
            Call(c).result = RouteAlone(chg, g, Call(c).startSnap, Call(c).endSnap)

\* C17: concurrent Route calls on one Engine each return what the same call
\* returns when it runs alone, whatever the interleaving; no QueryState of
\* the pool is in use by two calls in flight at once; and no step of a query
\* changes the CHGraph or the original graph (from which the snapper index
\* is derived).
C17_ConcurrentRoutes ==
    /\ [](PoolExclusive /\ SameAsAlone)
    /\ [][eng' # eng => g' = g /\ chg' = chg]_vars

\* Two calls with different requests are in flight at once: one has built
\* its route and not yet put its QueryState back, the other is in the middle
\* of its search, and an earlier call has returned a QueryState to the pool.
C17_Witness ==
    \E c \in Callers, d \in Callers :
        /\ Call(c).pc = "reset" /\ Call(c).result.err = "nil"
        /\ Call(d).pc = "searching" /\ Call(d).iterations > 0
        /\ Call(d).startSnap # Call(c).startSnap
        /\ eng.pool # {}

-----------------------------------------------------------------------------
(* Properties of the Snapper *)

\* The entries of the index in the nine cells around the cell of the point.
InBlock(ce, lat, lng) ==
    LET center == gridCell(lat, lng)
    IN /\ ce.key[1] - center[1] \in {-1, 0, 1}
       /\ ce.key[2] - center[2] \in {-1, 0, 1}
Candidates ==
    {snapper.edges[i] : i \in {j \in 1..Len(snapper.edges) :
                                  InBlock(snapper.edges[j], snapper.lat, snapper.lng)}}
DistTo(ce) ==
    LET v == At(g.Head, ce.edgeIdx)
    IN PointToSegmentDist(snapper.lat, snapper.lng,
                          At(g.NodeLat, ce.source), At(g.NodeLon, ce.source),
                          At(g.NodeLat, v), At(g.NodeLon, v))
Snapped == snapper.pc = "snapped"

\* C18: Snap fails with PointTooFar exactly when no indexed edge of the 3x3
\* block of cells around the cell of the point lies within 500 m of the
\* point (an empty block included); otherwise it returns a candidate of the
\* block whose point-to-segment distance is the smallest, with that distance
\* at most 500 m and a ratio in [0, 1].
C18_SnapNearestWithin ==
    Snapped =>
        LET res == snapper.out.res IN
        /\ snapper.out.err \in {"nil", "ErrPointTooFar"}
        /\ snapper.out.err = "ErrPointTooFar" <=>
               \A ce \in Candidates : TooFar(DistTo(ce).dist)
        /\ snapper.out.err = "nil" =>
               /\ \E ce \in Candidates :
                     /\ res.EdgeIdx = ce.edgeIdx /\ res.NodeU = ce.source
                     /\ res.NodeV = At(g.Head, ce.edgeIdx)
                     /\ res.Dist = DistTo(ce).dist /\ res.Ratio = DistTo(ce).ratio
               /\ \A ce \in Candidates : ~FracLess(DistTo(ce).dist, res.Dist)
               /\ res.Dist.n * UnitMetersSq <=
                      maxSnapDistMeters * maxSnapDistMeters * res.Dist.d
               /\ res.Ratio.d > 0 /\ 0 <= res.Ratio.n /\ res.Ratio.n <= res.Ratio.d

\* Snap answered with a point strictly inside an edge at a distance above
\* zero, chosen among candidates at different distances, one of them
\* farther than 500 m.
C18_Witness ==
    /\ Snapped /\ snapper.out.err = "nil"
    /\ snapper.out.res.Dist.n > 0
    /\ 0 < snapper.out.res.Ratio.n /\ snapper.out.res.Ratio.n < snapper.out.res.Ratio.d
    /\ \E ce \in Candidates : TooFar(DistTo(ce).dist)
    /\ \E ce \in Candidates : FracLess(snapper.out.res.Dist, DistTo(ce).dist)
                                 /\ ~TooFar(DistTo(ce).dist)

-----------------------------------------------------------------------------
(* Properties of the HTTP host *)

\* The requests whose handler runs, and those that hold a slot: from the
\* send of the select to the deferred receive.
Handling == {r \in Requests : Req(r).pc = "handling"}
Holding == {r \in Requests : Req(r).pc \in {"admitted", "handling", "unwinding", "releasing"}}

\* C19: at most MaxConcurrent = 2 x NumCPU handlers run at once; a request
\* that finds every slot taken is answered at once with 503 and Retry-After
\* and its handler is never called; every admitted request gives its slot
\* back exactly once, whether its handler returned, ran into the timeout or
\* panicked, so the tokens in the channel are exactly the slots in use.
C19_BoundedHandlers ==
    /\ Cardinality(Handling) <= MaxConcurrent
    /\ srv.sem = Cardinality(Holding)
    /\ \A r \in Requests :
          /\ Req(r).sawFull =>
                /\ Req(r).pc = "done" /\ Req(r).status = 503 /\ Req(r).retryAfter
                /\ Req(r).handlerRuns = 0 /\ Req(r).released = 0
          /\ Req(r).status = 503 => Req(r).sawFull
          /\ Req(r).pc = "done" /\ ~Req(r).sawFull =>
                Req(r).handlerRuns = 1 /\ Req(r).released = 1
          /\ r \in Holding => Req(r).released = 0

\* Every slot is taken, one by a request whose handler panicked and that
\* has not yet given its slot back, another by a handler still running after
\* the timeout, and one more request was turned away with 503.
C19_Witness ==
    /\ srv.sem = MaxConcurrent
    /\ \E r \in Holding : Req(r).panicking
    /\ \E r \in Handling : Req(r).ctxDone
    /\ \E r \in Requests : Req(r).pc = "done" /\ Req(r).sawFull

-----------------------------------------------------------------------------
(* Properties of the witness search *)

\* Shortest distances between the nodes of a set S over adjacency lists,
\* by paths that stay in S: NoPath where there is none.
NoPath == MaxUint32
PathMin(a, b) == IF a = NoPath THEN b ELSE IF b = NoPath THEN a ELSE Min2(a, b)
PathSum(a, b) == IF a = NoPath \/ b = NoPath THEN NoPath ELSE a + b
EdgeMin(adj, u, v) ==
    FoldRange(LAMBDA m, k : IF adj[k].to = v THEN PathMin(m, adj[k].weight) ELSE m,
              NoPath, 1, Len(adj))
Through(d, k) ==
    [u \in DOMAIN d |-> [v \in DOMAIN d |->
        PathMin(d[u][v], PathSum(d[u][k], d[k][v]))]]
RECURSIVE ThroughAll(_, _)
ThroughAll(d, K) ==
    IF K = {} THEN d
    ELSE LET k == CHOOSE x \in K : TRUE IN ThroughAll(Through(d, k), K \ {k})
Distances(outAdj, S) ==
    ThroughAll([u \in S |-> [v \in S |->
                   IF u = v THEN 0 ELSE EdgeMin(At(outAdj, u), u, v)]], S)

Uncontracted == {u \in Nodes(g) : ~At(cs.contracted, u)}
InContract == cs.pc # "done"
OriginalDistances == Distances(ContractStart(g).outAdj, Nodes(g))

-----------------------------------------------------------------------------
(* Properties of the shortcut limit *)

\* The node at the head of the queue is neither skipped nor re-inserted, and
\* findShortcuts returns more than maxShortcutsPerNode shortcuts for it.
Popped == cs.pq[1].node
ValveFires ==
    /\ cs.pc = "loop"
    /\ ~At(cs.contracted, Popped)
    /\ LET pq1 == HeapPop(PrioLess, cs.pq)
           newPriority == computePriority(cs.outAdj, cs.inAdj, Popped, cs.contracted,
                              At(cs.contractedNeighbors, Popped), At(cs.level, Popped))
       IN ~(/\ newPriority > cs.pq[1].priority
            /\ Len(pq1) > 0
            /\ newPriority > pq1[1].priority)
    /\ Len(findShortcuts(cs.ws, cs.outAdj, cs.inAdj, Popped, cs.contracted).shortcuts)
           > maxShortcutsPerNode

\* The nodes left to the core when the loop has ended, and the entries of
\* the working adjacency with an end in the core.
Core == {u \in Nodes(g) : ~At(cs.contracted, u)}
CoreEntries ==
    UNION {{[from |-> u, to |-> At(cs.outAdj, u)[k].to,
             weight |-> At(cs.outAdj, u)[k].weight,
             middle |-> At(cs.outAdj, u)[k].middle] :
                k \in {j \in 1..Len(At(cs.outAdj, u)) :
                          /\ At(cs.outAdj, u)[j].to # u
                          /\ u \in Core \/ At(cs.outAdj, u)[j].to \in Core}} :
           u \in Nodes(g)}

StopsClean ==
    /\ cs'.pc = "core"
    /\ cs'.outAdj = cs.outAdj /\ cs'.inAdj = cs.inAdj
    /\ cs'.contracted = cs.contracted /\ cs'.rank = cs.rank /\ cs'.order = cs.order
    /\ ~At(cs'.contracted, Popped)
CoreEmitted ==
    /\ \A u \in Nodes(g) :
          IF u \in Core THEN At(chg'.Rank, u) >= cs.order
          ELSE At(chg'.Rank, u) = At(cs.rank, u) /\ At(cs.rank, u) < cs.order
    /\ CoreEntries \subseteq OverlayEdges(chg')

-----------------------------------------------------------------------------
(* Properties of the contraction loop *)

InLoop == cs.pc \in {"loop", "core"}
ContractedNodes == {u \in Nodes(g) : At(cs.contracted, u)}
PriorityOf(c, u) ==
    computePriority(c.outAdj, c.inAdj, u, c.contracted,
                    At(c.contractedNeighbors, u), At(c.level, u))
QueueMin(pq) ==
    CHOOSE p \in {pq[k].priority : k \in 1..Len(pq)} :
        \A k \in 1..Len(pq) : p <= pq[k].priority

\* The contracted nodes are those with the ranks given out so far.
RankedOnce ==
    InLoop =>
        /\ Cardinality(ContractedNodes) = cs.order
        /\ {At(cs.rank, u) : u \in ContractedNodes} = 0..(cs.order - 1)

\* A step of the loop clears no contracted flag, changes no rank of a
\* contracted node, and contracts at most one node; the overlay carries the
\* ranks of the contracted nodes.
FlagsAndRanksKept ==
    /\ InLoop /\ cs'.pc # "done" =>
          /\ \A u \in ContractedNodes :
                At(cs'.contracted, u) /\ At(cs'.rank, u) = At(cs.rank, u)
          /\ cs'.order \in {cs.order, cs.order + 1}
    /\ InLoop /\ cs'.pc = "done" =>
          \A u \in ContractedNodes : At(chg'.Rank, u) = At(cs.rank, u)

\* The queue is as long after the step as before: the popped node was put
\* back, which happens only with a priority above the popped one and above
\* the least of the rest, and changes nothing else.
Reinserted == cs.pc = "loop" /\ cs'.pc = "loop" /\ Len(cs'.pq) = Len(cs.pq)
ReinsertedHigher ==
    Reinserted =>
        LET rest == HeapPop(PrioLess, cs.pq)
            new == PriorityOf(cs, Popped)
        IN /\ ~At(cs.contracted, Popped)
           /\ new > cs.pq[1].priority /\ Len(rest) > 0 /\ new > QueueMin(rest)
           /\ cs'.pq = HeapPush(PrioLess, rest, [node |-> Popped, priority |-> new])
           /\ cs'.contracted = cs.contracted /\ cs'.rank = cs.rank
           /\ cs'.outAdj = cs.outAdj /\ cs'.inAdj = cs.inAdj

\* C22: Contract terminates; each node is contracted once (a contracted
\* flag is never cleared and a rank never changed); a popped node is put
\* back only when its recomputed priority exceeds its popped priority and the
\* least priority left in the queue.
C22_ContractTerminates ==
    /\ []RankedOnce
    /\ [][FlagsAndRanksKept /\ ReinsertedHigher]_vars
    /\ <>(cs.pc = "done")

\* A node that was put back with a higher priority is in the queue while
\* other nodes are already contracted.
C22_Witness ==
    /\ cs.pc = "loop" /\ cs.order > 0
    /\ \E k \in 1..Len(cs.pq) :
          /\ ~At(cs.contracted, cs.pq[k].node)
          /\ cs.pq[k].priority > PriorityOf(ContractStart(g), cs.pq[k].node)

-----------------------------------------------------------------------------
(* Properties of buildOverlay *)

\* The entries u -> v of the working adjacency with u # v, in node order.
WorkEntries ==
    Concat([i \in 1..Len(cs.outAdj) |->
        LET own == SelectSeq(cs.outAdj[i], LAMBDA e : e.to # i - 1)
        IN [k \in 1..Len(own) |->
              [from |-> i - 1, to |-> own[k].to, weight |-> own[k].weight,
               middle |-> own[k].middle]]])

\* The entries of one CSR in array order; those of the backward CSR stand
\* for the edge from their head to their source.
CSREntries(n, firstOut, head, weight, middle, backward) ==
    Concat([i \in 1..n |->
        [k \in 1..(firstOut[i + 1] - firstOut[i]) |->
            [from   |-> IF backward THEN At(head, firstOut[i] + k - 1) ELSE i - 1,
             to     |-> IF backward THEN i - 1 ELSE At(head, firstOut[i] + k - 1),
             weight |-> At(weight, firstOut[i] + k - 1),
             middle |-> At(middle, firstOut[i] + k - 1)]]])
FwdEntries(c) ==
    CSREntries(c.NumNodes, c.FwdFirstOut, c.FwdHead, c.FwdWeight, c.FwdMiddle, FALSE)
BwdEntries(c) ==
    CSREntries(c.NumNodes, c.BwdFirstOut, c.BwdHead, c.BwdWeight, c.BwdMiddle, TRUE)

Times(sq, r) == Cardinality({k \in 1..Len(sq) : sq[k] = r})
Elements(sq) == {sq[k] : k \in 1..Len(sq)}

\* What Contract returns holds every entry of the working adjacency as often
\* as the adjacency does, on its side.
PlacedOnce ==
    LET work == WorkEntries
        fwd == FwdEntries(chg')
        bwd == BwdEntries(chg')
        up(r) == At(chg'.Rank, r.from) < At(chg'.Rank, r.to)
    IN /\ \A r \in Elements(work) \cup Elements(fwd) \cup Elements(bwd) :
             IF up(r)
                 THEN Times(fwd, r) = Times(work, r) /\ Times(bwd, r) = 0
                 ELSE Times(bwd, r) = Times(work, r) /\ Times(fwd, r) = 0
       /\ \A r \in Elements(fwd) : At(chg'.Rank, r.from) < At(chg'.Rank, r.to)
       /\ \A r \in Elements(bwd) : At(chg'.Rank, r.to) < At(chg'.Rank, r.from)
       /\ Len(fwd) + Len(bwd) = Len(work)

\* C23: buildOverlay puts every entry u -> v (u # v) of the final working
\* adjacency, weight and middle unchanged, into the forward overlay under u
\* when rank(u) < rank(v) and otherwise into the backward overlay under v
\* with head u, and nowhere else; every overlay edge leads from the lower to
\* the higher rank, and the two overlays together have as many entries as
\* the working adjacency.
C23_OverlayPartition ==
    [][cs.pc = "core" /\ cs'.pc = "done" => PlacedOnce]_vars

\* An overlay with a shortcut and an original edge on either side.
C23_Witness ==
    /\ cs.pc = "done"
    /\ \E a, b \in Elements(FwdEntries(chg)) : a.middle >= 0 /\ b.middle < 0
    /\ \E a, b \in Elements(BwdEntries(chg)) : a.middle >= 0 /\ b.middle < 0

-----------------------------------------------------------------------------
(* Properties of the CSR arrays *)

Built == bld.pc = "built"
BuiltFiltered == bld.pc \in {"built", "contract"} /\ comp.pc = "filtered"
Overlaid == bld.pc = "contract" /\ cs.pc = "done" /\ g.NumNodes > 0

CSRShape(n, m, firstOut, head) ==
    /\ Len(firstOut) = n + 1
    /\ firstOut[1] = 0
    /\ \A i \in 1..n : firstOut[i] <= firstOut[i + 1]
    /\ firstOut[n + 1] = m
    /\ \A k \in 1..Len(head) : head[k] >= 0 /\ head[k] < n
Positive(weight) == \A k \in 1..Len(weight) : weight[k] >= 1
InputPositive == \A k \in 1..Len(bld.edges) : bld.edges[k].Weight >= 1

\* C24: the CSR of Build, of FilterToComponent and the two of buildOverlay
\* each have N+1 offsets that start at 0, do not decrease and end at M, heads
\* below N, and weights >= 1 when every input weight is >= 1.
C24_CSRInvariants ==
    /\ Built =>
          /\ CSRShape(g.NumNodes, g.NumEdges, g.FirstOut, g.Head)
          /\ InputPositive => Positive(g.Weight)
    /\ BuiltFiltered =>
          /\ CSRShape(comp.filtered.NumNodes, comp.filtered.NumEdges,
                      comp.filtered.FirstOut, comp.filtered.Head)
          /\ InputPositive => Positive(comp.filtered.Weight)
    /\ Overlaid =>
          /\ CSRShape(chg.NumNodes, Len(chg.FwdHead), chg.FwdFirstOut, chg.FwdHead)
          /\ CSRShape(chg.NumNodes, Len(chg.BwdHead), chg.BwdFirstOut, chg.BwdHead)
          /\ InputPositive => Positive(chg.FwdWeight) /\ Positive(chg.BwdWeight)

\* The same for the graphs that have a node.
CSRInvariantsWithNodes ==
    /\ Built /\ g.NumNodes > 0 =>
          /\ CSRShape(g.NumNodes, g.NumEdges, g.FirstOut, g.Head)
          /\ InputPositive => Positive(g.Weight)
    /\ BuiltFiltered /\ comp.filtered.NumNodes > 0 =>
          /\ CSRShape(comp.filtered.NumNodes, comp.filtered.NumEdges,
                      comp.filtered.FirstOut, comp.filtered.Head)
          /\ InputPositive => Positive(comp.filtered.Weight)
    /\ Overlaid =>
          /\ CSRShape(chg.NumNodes, Len(chg.FwdHead), chg.FwdFirstOut, chg.FwdHead)
          /\ CSRShape(chg.NumNodes, Len(chg.BwdHead), chg.BwdFirstOut, chg.BwdHead)
          /\ InputPositive => Positive(chg.FwdWeight) /\ Positive(chg.BwdWeight)

-----------------------------------------------------------------------------
(* Properties of graph.Build *)

SelfLoops(gr) ==
    {e \in 0..(Len(gr.Head) - 1) :
        \E u \in 0..(gr.NumNodes - 1) : e \in EdgesFrom(gr, u) /\ At(gr.Head, e) = u}

\* C30: the graph Build returns has no edge from a node to itself, and none
\* is in what the component filter returns or in Contract's adjacency.
C30_NoSelfLoops ==
    /\ Built => SelfLoops(g) = {}
    /\ BuiltFiltered => SelfLoops(comp.filtered) = {}
    /\ bld.pc = "contract" /\ cs.pc # "done" =>
          \A i \in 1..Len(cs.outAdj) : \A k \in 1..Len(cs.outAdj[i]) :
              cs.outAdj[i][k].to # i - 1

-----------------------------------------------------------------------------
(* Properties of the UnionFind *)

Root(x) == Find(dsu.uf, x).root
Roots == {r \in Elems : At(dsu.uf.parent, r) = r}

\* Find tells the sets apart, and every root carries the size of its set.
SetsAndSizes ==
    dsu.last.op # "none" =>
        /\ \A x, y \in Elems : (Root(x) = Root(y)) <=> (At(dsu.sets, x) = At(dsu.sets, y))
        /\ \A r \in Roots : At(dsu.uf.size, r) = Cardinality(At(dsu.sets, r))
        /\ dsu.last.op = "Find" => At(dsu.sets, dsu.last.root) = At(dsu.sets, dsu.last.x)

\* A Union of two elements of one set returns false and leaves every set and
\* every size as it was; any other Union returns true.
UnionOfSameSet ==
    dsu'.last.op = "Union" =>
        IF At(dsu.sets, dsu'.last.x) = At(dsu.sets, dsu'.last.y)
            THEN /\ ~dsu'.last.ok
                 /\ dsu'.sets = dsu.sets
                 /\ dsu'.uf.size = dsu.uf.size
                 /\ \A x \in Elems : At(dsu'.sets, Find(dsu'.uf, x).root) = At(dsu.sets, x)
            ELSE dsu'.last.ok

\* C25: after any Union calls Find(x) = Find(y) exactly when x and y were
\* joined by the unions, the size at each root is the number of elements of
\* its set, and Union on two elements of one set returns false and changes
\* no set.
C25_UnionFind ==
    /\ []SetsAndSizes
    /\ [][UnionOfSameSet]_vars

\* Sets of three and of two elements, and a Union inside one of them that
\* has just returned false.
C25_Witness ==
    /\ dsu.last.op = "Union" /\ ~dsu.last.ok /\ dsu.last.x # dsu.last.y
    /\ \E r \in Roots : At(dsu.uf.size, r) = 3
    /\ \E r \in Roots : At(dsu.uf.size, r) = 2

-----------------------------------------------------------------------------
(* Properties of the pooled QueryState *)

Written(q) ==
    {node \in 0..(Len(q.DistFwd) - 1) :
        \/ At(q.DistFwd, node) # MaxUint32 \/ At(q.DistBwd, node) # MaxUint32
        \/ At(q.PredFwd, node) # noNode \/ At(q.PredBwd, node) # noNode}
OnTouchedList(q) == {q.Touched[k] : k \in 1..Len(q.Touched)}

\* While Route holds the state, the touched list has every written node.
TouchedCovers ==
    run.kind = "route" /\ run.pc \in {"searching", "searched"} =>
        Written(qs) \subseteq OnTouchedList(qs)

\* Once Route has returned, whatever it returned, the state is as new.
AsNew ==
    out.kind = "route" /\ run.pc = "idle" => qs = NewQueryState(chg.NumNodes)

\* C26: after a query that succeeded, found no route or was cancelled,
\* Reset leaves the distances at MaxUint32, the predecessors at noNode, the
\* touched list and both heaps empty: the touched list has every node that
\* was written, so the pooled state equals a fresh one.
C26_ResetRestores == TouchedCovers /\ AsNew

\* A cancelled query has returned and the state is reset.
C26_Witness ==
    /\ out.kind = "route" /\ out.sawCancel /\ run.pc = "idle"
    /\ Written(qs) = {} /\ qs.Touched = <<>> /\ qs.FwdPQ = <<>> /\ qs.BwdPQ = <<>>

-----------------------------------------------------------------------------
(* Properties of the cancellation check *)

\* The loop of runCHDijkstra makes a pass.
SearchPass == run.pc = "searching" /\ <<qs, run>>' # <<qs, run>>
\* The pass leaves by the break at the top of the loop.
BothDone ==
    Le32(run.mu, PeekDist(qs.FwdPQ)) /\ Le32(run.mu, PeekDist(qs.BwdPQ))
\* The pass is the 256th since the last test of the context.
TestedPass == (run.iterations + 1) % (cancelMask + 1) = 0

\* A pass that does not break returns exactly when it is a 256th pass and
\* the signal is set, with mu, the meeting node and the QueryState as they
\* were; any other pass counts one iteration and goes on.
PassOutcome ==
    SearchPass =>
        IF BothDone
            THEN run'.pc = "searched" /\ ~run'.sawCancel
        ELSE IF TestedPass /\ cancelled
            THEN /\ run'.pc = "searched" /\ run'.sawCancel
                 /\ run'.iterations = run.iterations + 1
                 /\ run'.mu = run.mu /\ run'.meetNode = run.meetNode
                 /\ qs' = qs
        ELSE /\ run'.pc = "searching" /\ ~run'.sawCancel
             /\ run'.iterations = run.iterations + 1

\* What Route reports after such a return is the mu and meeting node held
\* at the test.
ReportsHeld ==
    run.pc = "searched" /\ run.sawCancel /\ run'.pc = "idle" =>
        out'.mu = run.mu /\ out'.meetNode = run.meetNode

\* C27: runCHDijkstra looks at the cancellation signal on every 256th pass
\* of its loop and on no other; with the signal set no pass goes beyond the
\* next multiple of 256, which is at most 256 passes away, and the search
\* returns the mu and meeting node held at that test, nothing relaxed in
\* between.
C27_CancelEvery256 == [][PassOutcome /\ ReportsHeld]_vars

\* The search has returned at its 256th pass with a meeting node known.
C27_Witness ==
    /\ run.pc = "searched" /\ run.sawCancel /\ cancelled
    /\ run.iterations = cancelMask + 1
    /\ run.meetNode # noNode /\ run.mu # MaxUint32
    /\ qs.FwdPQ # <<>>

-----------------------------------------------------------------------------
(* Properties of the search result *)

\* node, pred[node], .. for at most k steps: a chain that revisits a node
\* does not end within NumNodes steps.
RECURSIVE ChainUpTo(_, _, _)
ChainUpTo(pred, node, k) ==
    IF k = 0 \/ At(pred, node) = noNode THEN <<node>>
    ELSE <<node>> \o ChainUpTo(pred, At(pred, node), k - 1)

\* The chain from node ends at a node without predecessor and names no node
\* twice.
EndsOnce(pred, node) ==
    LET ch == ChainUpTo(pred, node, Len(pred))
    IN /\ At(pred, ch[Len(ch)]) = noNode
       /\ \A i, j \in 1..Len(ch) : i # j => ch[i] # ch[j]

\* The distances at which the query in flight seeded node.
FwdSeeds(node) ==
    IF run.kind = "test" THEN {0 : x \in {run.s} \cap {node}}
    ELSE {SeedDist(g, run.startSnap, n) :
            n \in {run.startSnap.NodeU, run.startSnap.NodeV} \cap {node}}
BwdSeeds(node) ==
    IF run.kind = "test" THEN {0 : x \in {run.t} \cap {node}}
    ELSE {SeedDist(g, run.endSnap, n) :
            n \in {run.endSnap.NodeU, run.endSnap.NodeV} \cap {node}}

\* Every link p -> n of the chain was relaxed over an upward edge from p to n
\* whose weight is the difference of the two distances.
Relaxed(firstOut, head, weight, dist, ch) ==
    \A i \in 1..(Len(ch) - 1) :
        \E e \in At(firstOut, ch[i + 1])..(At(firstOut, ch[i + 1] + 1) - 1) :
            /\ At(head, e) = ch[i]
            /\ Add32(At(dist, ch[i + 1]), At(weight, e)) = At(dist, ch[i])

NormalReturn == run.pc = "searched" /\ ~run.sawCancel /\ run.mu # MaxUint32

\* C28: when runCHDijkstra has returned a finite mu by the break of its
\* loop, mu = DistFwd[meet] + DistBwd[meet]; the PredFwd chain from meet
\* ends, no node twice, at a forward seed that still has its seed distance,
\* the PredBwd chain likewise at a backward seed, and every link of either
\* chain is an upward edge whose weight is the difference of the distances
\* of its ends: the seed distances and the edge weights add up to mu.
C28_MuIsChainSum ==
    NormalReturn =>
        LET meet == run.meetNode
            fwd == ChainUpTo(qs.PredFwd, meet, Len(qs.PredFwd))
            bwd == ChainUpTo(qs.PredBwd, meet, Len(qs.PredBwd))
        IN /\ meet # noNode
           /\ run.mu = Add32(At(qs.DistFwd, meet), At(qs.DistBwd, meet))
           /\ EndsOnce(qs.PredFwd, meet) /\ EndsOnce(qs.PredBwd, meet)
           /\ At(qs.DistFwd, fwd[Len(fwd)]) \in FwdSeeds(fwd[Len(fwd)])
           /\ At(qs.DistBwd, bwd[Len(bwd)]) \in BwdSeeds(bwd[Len(bwd)])
           /\ Relaxed(chg.FwdFirstOut, chg.FwdHead, chg.FwdWeight, qs.DistFwd, fwd)
           /\ Relaxed(chg.BwdFirstOut, chg.BwdHead, chg.BwdWeight, qs.DistBwd, bwd)

\* The same on the graphs in which no edge leads from a node to itself.
MuIsChainSumWithoutLoops == SelfLoops(g) = {} => C28_MuIsChainSum

-----------------------------------------------------------------------------
(* Properties of unpackOverlayPath.                                        *)

\* The edges of an overlay as pairs <<from, to>>: a backward entry under u
\* with head h is the edge h -> u.
OverlayPairs(c) ==
    UNION {{<<u, At(c.FwdHead, k)>> :
               k \in At(c.FwdFirstOut, u)..(At(c.FwdFirstOut, u + 1) - 1)} \cup
           {<<At(c.BwdHead, k), u>> :
               k \in At(c.BwdFirstOut, u)..(At(c.BwdFirstOut, u + 1) - 1)} :
           u \in 0..(c.NumNodes - 1)}

\* How deep the shortcuts nest under each edge, counted up to one more than
\* the bound: an edge without a middle node nests 0 deep, a shortcut one
\* deeper than the deeper of its halves, a pair without an edge 0 deep.
\* (The comparison of a round's table with itself makes the evaluator
\* compute the table before the next round reads it.)
NestStep(c, d) ==
    [p \in DOMAIN d |->
        LET m == findMiddle(c, p[1], p[2])
            half(q) == IF q \in DOMAIN d THEN d[q] ELSE 0
            deeper == IF half(<<p[1], m>>) > half(<<m, p[2]>>)
                          THEN half(<<p[1], m>>) ELSE half(<<m, p[2]>>)
        IN IF m < 0 THEN 0
           ELSE IF deeper > maxUnpackDepth THEN maxUnpackDepth + 1
           ELSE deeper + 1]
NestDepths(c) ==
    Iterate(LAMBDA d : LET next == NestStep(c, d)
                       IN IF next = next THEN next ELSE d,
            [p \in OverlayPairs(c) |-> 0], maxUnpackDepth + 1)

\* The original edges under each edge that nests at most as deep as the
\* bound, as the nodes after its first.
ExpandStep(c, depths, e) ==
    [p \in DOMAIN e |->
        LET m == findMiddle(c, p[1], p[2])
            half(q) == IF q \in DOMAIN e THEN e[q] ELSE <<q[2]>>
        IN IF m < 0 THEN <<p[2]>>
           ELSE IF depths[p] > maxUnpackDepth THEN <<>>
           ELSE half(<<p[1], m>>) \o half(<<m, p[2]>>)]
Expansions(c, depths) ==
    Iterate(LAMBDA e : LET next == ExpandStep(c, depths, e)
                       IN IF next = next THEN next ELSE e,
            [p \in OverlayPairs(c) |-> <<p[2]>>], maxUnpackDepth)

Hops(overlayNodes) ==
    [i \in 1..(Len(overlayNodes) - 1) |-> <<overlayNodes[i], overlayNodes[i + 1]>>]

\* Every hop of the node sequence nests at most as deep as the bound.
Shallow(c, overlayNodes) ==
    LET depths == NestDepths(c)
    IN \A i \in 1..(Len(overlayNodes) - 1) :
          Hops(overlayNodes)[i] \in DOMAIN depths
              => depths[Hops(overlayNodes)[i]] <= maxUnpackDepth

\* The first node followed by the original edges of every hop.
WholePath(c, overlayNodes) ==
    LET e == Expansions(c, NestDepths(c))
    IN <<overlayNodes[1]>> \o
       Concat([i \in 1..(Len(overlayNodes) - 1) |->
                  IF Hops(overlayNodes)[i] \in DOMAIN e
                      THEN e[Hops(overlayNodes)[i]]
                      ELSE <<overlayNodes[i + 1]>>])

\* No item on the stack is more than one level below the bound.
StackBounded ==
    \A k \in 1..Len(unp.stack) :
        unp.stack[k].depth >= 0 /\ unp.stack[k].depth <= maxUnpackDepth + 1

\* A pass takes the top item off; what it puts on are at most two items one
\* level deeper, and nothing when the item was below the bound, which is
\* the one case it counts as skipped.
PassDescends ==
    (unp.pc = "hops" /\ unp.stack # <<>> /\ unp'.pc = "hops") =>
        LET top == unp.stack[Len(unp.stack)]
            below == SubSeq(unp.stack, 1, Len(unp.stack) - 1)
        IN /\ Len(unp'.stack) \in (Len(below))..(Len(below) + 2)
           /\ SubSeq(unp'.stack, 1, Len(below)) = below
           /\ \A k \in (Len(below) + 1)..Len(unp'.stack) :
                 unp'.stack[k].depth = top.depth + 1
           /\ top.depth > maxUnpackDepth =>
                 unp'.stack = below /\ unp'.skipped = unp.skipped + 1
                 /\ unp'.result = unp.result
           /\ top.depth <= maxUnpackDepth => unp'.skipped = unp.skipped

\* A call with at least two nodes whose hops nest no deeper than the bound
\* returns having skipped nothing, with every original edge of every hop.
ReturnsWhole ==
    (unp.pc = "hops" /\ unp'.pc = "returned"
        /\ Shallow(unp.c, unp.overlayNodes)) =>
        /\ unp'.skipped = 0
        /\ unp'.result = WholePath(unp.c, unp.overlayNodes)

\* C29: unpackOverlayPath returns for every overlay and node sequence, one
\* with cyclic middle references included: stack items never lie more than
\* one level below the bound of 200, every pass replaces the top item by at
\* most two items one level deeper, and an item below the bound is taken
\* off without a replacement.  When every hop nests at most 200 deep no item
\* is skipped and the result holds every original edge of every hop.
C29_UnpackTerminates ==
    /\ []StackBounded
    /\ [][PassDescends /\ ReturnsWhole]_vars
    /\ <>(unp.pc = "returned")

\* The shortcut that nests exactly 200 deep has been unpacked into all of
\* its 201 original edges.
C29_Witness ==
    /\ unp.pc = "returned"
    /\ unp.c.NumNodes = maxUnpackDepth + 2
    /\ unp.overlayNodes = <<0, maxUnpackDepth + 1>>
    /\ unp.skipped = 0
    /\ unp.result = [i \in 1..(maxUnpackDepth + 2) |-> i - 1]

====
